---- MODULE Spec2Model ----
(***************************************************************************)
(* Deep-zoom tile serving: the level index (_dataset_level_metadata, an    *)
(* lru_cache'd directory scan) and the tile resolver (_resolve_tile) of    *)
(* apps/api/app/routers/tiles.py, with the operations that change a        *)
(* dataset directory (TileProcessor.generate_tiles, delete_dataset).       *)
(*                                                                         *)
(* File and directory names are sequences of one-character strings, so    *)
(* that int(), str(), Path.stem and str.split are computed on the text.   *)
(***************************************************************************)
EXTENDS Integers, Sequences, FiniteSets, TLC

(***************************************************************************)
(* Text helpers                                                            *)
(***************************************************************************)
DigitChars == <<"0", "1", "2", "3", "4", "5", "6", "7", "8", "9">>

IsDigit(c) == \E i \in 1..10 : DigitChars[i] = c

DigitVal(c) == (CHOOSE i \in 1..10 : DigitChars[i] = c) - 1

SetMax(S) == CHOOSE x \in S : \A y \in S : y <= x

SetMin(S) == CHOOSE x \in S : \A y \in S : x <= y

PyMax(a, b) == IF a >= b THEN a ELSE b

PyMin(a, b) == IF a <= b THEN a ELSE b

\* str.strip(): int() ignores surrounding blanks
RECURSIVE StripLeft(_)
StripLeft(s) == IF s # <<>> /\ Head(s) = " " THEN StripLeft(Tail(s)) ELSE s

RECURSIVE StripRight(_)
StripRight(s) ==
    IF s # <<>> /\ s[Len(s)] = " " THEN StripRight(SubSeq(s, 1, Len(s) - 1)) ELSE s

\* the digits of an int() literal: digits with single underscores between them
ValidDigits(s) ==
    /\ s # <<>>
    /\ IsDigit(s[1])
    /\ IsDigit(s[Len(s)])
    /\ \A i \in 1..Len(s) : IsDigit(s[i]) \/ s[i] = "_"
    /\ \A i \in 1..(Len(s) - 1) : ~(s[i] = "_" /\ s[i + 1] = "_")

RECURSIVE DigitsValue(_, _)
DigitsValue(s, acc) ==
    IF s = <<>> THEN acc
    ELSE IF Head(s) = "_" THEN DigitsValue(Tail(s), acc)
    ELSE DigitsValue(Tail(s), 10 * acc + DigitVal(Head(s)))

\* int(text): <<n>> when the text is an integer literal, <<>> for ValueError
PyInt(text) ==
    LET t == StripRight(StripLeft(text))
        signed == t # <<>> /\ t[1] \in {"+", "-"}
        body == IF signed THEN Tail(t) ELSE t
    IN  IF ~ValidDigits(body) THEN <<>>
        ELSE IF signed /\ t[1] = "-" THEN <<0 - DigitsValue(body, 0)>>
        ELSE <<DigitsValue(body, 0)>>

RECURSIVE NatStr(_)
NatStr(n) == IF n < 10 THEN <<DigitChars[n + 1]>>
             ELSE NatStr(n \div 10) \o <<DigitChars[(n % 10) + 1]>>

\* str(n) and the {n} of an f-string
PyStr(n) == IF n < 0 THEN <<"-">> \o NatStr(0 - n) ELSE NatStr(n)

\* positions of character c in s
Positions(s, c) == {i \in 1..Len(s) : s[i] = c}

\* PurePath.stem: the name without its last suffix; a leading or trailing dot
\* is no suffix separator
PathStem(name) ==
    LET dots == Positions(name, ".")
    IN  IF dots = {} THEN name
        ELSE LET i == SetMax(dots)
             IN  IF 1 < i /\ i < Len(name) THEN SubSeq(name, 1, i - 1) ELSE name

\* Path.glob("*_*") keeps the names that hold an underscore
GlobMatch(name) == Positions(name, "_") # {}

\* the (col, row) a tile file name stands for: name.split("_", 1) on the
\* stem, int() on both halves; <<>> when the name is skipped
TileCoords(name) ==
    LET stem == PathStem(name)
        us == Positions(stem, "_")
    IN  IF ~GlobMatch(name) \/ us = {} THEN <<>>
        ELSE LET i == SetMin(us)
                 col == PyInt(SubSeq(stem, 1, i - 1))
                 row == PyInt(SubSeq(stem, i + 1, Len(stem)))
             IN  IF col = <<>> \/ row = <<>> THEN <<>> ELSE <<col[1], row[1]>>

\* f"{col}_{row}.{ext}"
TileName(col, row, ext) == PyStr(col) \o <<"_">> \o PyStr(row) \o <<".">> \o ext

(***************************************************************************)
(* The dataset directory TILE_BASE/<dataset_id> as the scan sees it        *)
(*   exists  : the path is there                                           *)
(*   isDir   : and it is a directory                                       *)
(*   entries : its children, each [name, isDir, files]                     *)
(*   dzi     : the info.dzi descriptor file                                *)
(***************************************************************************)
NoDzi == [present |-> FALSE, parses |-> FALSE, hasSize |-> FALSE,
          Width |-> <<>>, Height |-> <<>>,
          Format |-> <<>>, Overlap |-> <<>>, TileSize |-> <<>>]

\* a well-formed descriptor; an attribute is <<>> when absent, <<text>> when set
SizeDzi(w, h) == [NoDzi EXCEPT !.present = TRUE, !.parses = TRUE, !.hasSize = TRUE,
                               !.Width = <<w>>, !.Height = <<h>>]

AbsentDir == [exists |-> FALSE, isDir |-> FALSE, entries |-> {}, dzi |-> NoDzi]

\* a regular file where the dataset directory would be
PlainFile == [exists |-> TRUE, isDir |-> FALSE, entries |-> {}, dzi |-> NoDzi]

MkDir(ents, dz) == [exists |-> TRUE, isDir |-> TRUE, entries |-> ents, dzi |-> dz]

FileExistsInAnyLevel(dir, levelName, fileName) ==
    /\ dir.exists
    /\ dir.isDir
    /\ \E e \in dir.entries : e.isDir /\ fileName \in e.files

\* Path.exists() of dataset_path / level_name / file_name
FileExists(dir, levelName, fileName) ==
    /\ dir.exists
    /\ dir.isDir
    /\ \E e \in dir.entries : e.isDir /\ e.name = levelName /\ fileName \in e.files

\* math.ceil(math.log2(n)) for n >= 1
RECURSIVE CeilLog2From(_, _, _)
CeilLog2From(n, k, p) == IF p >= n THEN k ELSE CeilLog2From(n, k + 1, 2 * p)

CeilLog2(n) == CeilLog2From(n, 0, 1)

\* size_node.attrib.get(name, "0")
AttribGet(attr) == IF attr = <<>> THEN <<"0">> ELSE attr[1]

DziMaxLevelLenient(dzi, max_available_level) ==
    IF ~dzi.present \/ ~dzi.parses \/ ~dzi.hasSize THEN max_available_level
    ELSE LET w == PyInt(AttribGet(dzi.Width))
             h == PyInt(AttribGet(dzi.Height))
             width == IF w = <<>> THEN 0 ELSE w[1]
             height == IF h = <<>> THEN 0 ELSE h[1]
         IN  IF width > 0 \/ height > 0
             THEN CeilLog2(PyMax(width, height))
             ELSE max_available_level

\* lines 75-88: the level the descriptor declares, max_available_level when
\* info.dzi is absent, does not parse, has no Size, has a non-numeric
\* attribute (the except branch) or has no positive dimension
DziMaxLevel(dzi, max_available_level) ==
    IF ~dzi.present \/ ~dzi.parses \/ ~dzi.hasSize THEN max_available_level
    ELSE LET width == PyInt(AttribGet(dzi.Width))
             height == PyInt(AttribGet(dzi.Height))
         IN  IF width = <<>> \/ height = <<>> THEN max_available_level
             ELSE IF width[1] > 0 \/ height[1] > 0
                  THEN CeilLog2(PyMax(width[1], height[1]))
                  ELSE max_available_level

ReturnedDziLevelAsDeclared(dzi_max_level, max_available_level) == dzi_max_level

\* lines 92-98: the declared level handed to the resolver
ReturnedDziLevel(dzi_max_level, max_available_level) ==
    PyMax(dzi_max_level, max_available_level)

LevelMaxRowOfCols(files) ==
    SetMax({-1} \cup {TileCoords(f)[1] : f \in {g \in files : TileCoords(g) # <<>>}})

\* lines 51-64: max_col / max_row over the tile names of one level directory
LevelMaxCol(files) ==
    SetMax({-1} \cup {TileCoords(f)[1] : f \in {g \in files : TileCoords(g) # <<>>}})

LevelMaxRow(files) ==
    SetMax({-1} \cup {TileCoords(f)[2] : f \in {g \in files : TileCoords(g) # <<>>}})

LevelAvailableEither(max_col, max_row) == max_col >= 0 \/ max_row >= 0

\* line 66: the level is kept
LevelAvailable(max_col, max_row) == max_col >= 0 /\ max_row >= 0

\* lines 43-49: the children the loop does not skip
LevelDirs(dir) == {e \in dir.entries : e.isDir /\ PyInt(e.name) # <<>>}

\* lines 43-68: one candidate per kept directory
LevelCandidates(dir) ==
    {[level |-> PyInt(e.name)[1],
      bounds |-> [max_col |-> LevelMaxCol(e.files), max_row |-> LevelMaxRow(e.files)]] :
        e \in {x \in LevelDirs(dir) :
                  LevelAvailable(LevelMaxCol(x.files), LevelMaxRow(x.files))}}

IndexError(detail) ==
    [ok |-> FALSE, detail |-> detail, level_bounds |-> <<>>,
     min_available_level |-> 0, max_available_level |-> 0, dzi_max_level |-> 0]

DirMissingNever(dir) == FALSE

\* line 34: dataset_path.exists()
DirMissing(dir) == ~dir.exists

\* _dataset_level_metadata's body: the results it can produce for a
\* directory.  iterdir() yields in no fixed order, so when two directory
\* names denote the same level either one's bounds may be the one left in
\* level_bounds.  iterdir() on a regular file raises NotADirectoryError,
\* which nothing catches.
ScanOutcomes(dir) ==
    IF DirMissing(dir) THEN {IndexError("Dataset tiles not found")}
    ELSE IF ~dir.isDir THEN {IndexError("NotADirectoryError")}
    ELSE LET cands == LevelCandidates(dir)
             available_levels == {c.level : c \in cands}
         IN  IF available_levels = {}
             THEN {IndexError("No tiles available for dataset")}
             ELSE LET max_available_level == SetMax(available_levels)
                      min_available_level == SetMin(available_levels)
                  IN  {[ok |-> TRUE, detail |-> "",
                        level_bounds |-> lb,
                        min_available_level |-> min_available_level,
                        max_available_level |-> max_available_level,
                        dzi_max_level |->
                            ReturnedDziLevel(DziMaxLevel(dir.dzi, max_available_level),
                                             max_available_level)] :
                        lb \in {f \in [available_levels -> {c.bounds : c \in cands}] :
                                   \A l \in available_levels :
                                       \E c \in cands : c.level = l /\ c.bounds = f[l]}}

(***************************************************************************)
(* _resolve_tile, lines 201-229                                            *)
(***************************************************************************)
DirectMissingAlways(dir, level, col, row, ext) == TRUE

\* lines 201-202: the requested tile is not on disk
DirectMissing(dir, level, col, row, ext) ==
    ~FileExists(dir, PyStr(level), TileName(col, row, ext))

\* line 203
LevelOffset(dzi_max_level, max_available_level) ==
    PyMax(dzi_max_level - max_available_level, 0)

RemapLevelNoCeiling(level, meta) ==
    LET remapped_level == level - LevelOffset(meta.dzi_max_level, meta.max_available_level)
    IN  IF remapped_level < meta.min_available_level
        THEN meta.min_available_level
        ELSE remapped_level

RemapLevelNoOffset(level, meta) ==
    PyMin(PyMax(level, meta.min_available_level), meta.max_available_level)

\* lines 204-208
RemapLevel(level, meta) ==
    LET remapped_level == level - LevelOffset(meta.dzi_max_level, meta.max_available_level)
        raised == IF remapped_level < meta.min_available_level
                  THEN meta.min_available_level
                  ELSE remapped_level
    IN  PyMin(raised, meta.max_available_level)

\* lines 210-212: level_bounds.get(remapped_level) found something
HasBounds(meta, remapped_level) == remapped_level \in DOMAIN meta.level_bounds

RemapColNoFloor(col, bounds) == PyMin(col, bounds.max_col)

RemapColNoCeiling(col, bounds) == PyMax(col, 0)

RemapRowNoFloor(row, bounds) == PyMin(row, bounds.max_row)

\* lines 214-215
RemapCol(col, bounds) == PyMin(PyMax(col, 0), bounds.max_col)

RemapRow(row, bounds) == PyMin(PyMax(row, 0), bounds.max_row)

JPG == <<"j", "p", "g">>

JPEG == <<"j", "p", "e", "g">>

PNG == <<"p", "n", "g">>

WEBP == <<"w", "e", "b", "p">>

\* lines 222-229: media_types.get(ext, "image/jpeg")
MediaType(ext) ==
    IF ext = PNG THEN "image/png"
    ELSE IF ext = WEBP THEN "image/webp"
    ELSE "image/jpeg"

(***************************************************************************)
(* functools.lru_cache(maxsize=32) around _dataset_level_metadata: a list  *)
(* of [key, val], most recently used first.  Only returned values are      *)
(* stored; a call that raises leaves the cache as it was.                  *)
(***************************************************************************)
CacheMaxSize == 32

CacheIndex(c, key) ==
    IF \E i \in 1..Len(c) : c[i].key = key
    THEN CHOOSE i \in 1..Len(c) : c[i].key = key
    ELSE 0

CacheHasNever(c, key) == FALSE

CacheHas(c, key) == CacheIndex(c, key) # 0

CacheVal(c, key) == c[CacheIndex(c, key)].val

\* a hit moves the entry to the front
CacheTouchOnly(c, key) == <<c[CacheIndex(c, key)]>>

CacheTouch(c, key) ==
    LET i == CacheIndex(c, key)
    IN  <<c[i]>> \o SubSeq(c, 1, i - 1) \o SubSeq(c, i + 1, Len(c))

CachePutDropped(c, key, val) == c

CachePutUnbounded(c, key, val) == <<[key |-> key, val |-> val]>> \o c

\* a miss stores the result in front and drops the least recently used entry
\* once the cache is full
CachePut(c, key, val) ==
    LET grown == <<[key |-> key, val |-> val]>> \o c
    IN  IF Len(grown) > CacheMaxSize THEN SubSeq(grown, 1, CacheMaxSize) ELSE grown

(***************************************************************************)
(* State                                                                   *)
(*   disk   : dataset id -> dataset directory under TILE_BASE              *)
(*   cache  : the lru_cache of _dataset_level_metadata                     *)
(*   h      : the tile request the event loop is running (get_tile and     *)
(*            get_dzi_tile are coroutines that call _resolve_tile without  *)
(*            awaiting, so one request runs at a time); cold tells that    *)
(*            the index was not cached, dropped that storing it pushed     *)
(*            another entry out                                            *)
(*   last   : the outcome of the request in h once it has finished, until  *)
(*            the handler returns it                                       *)
(*   stats  : per dataset id, since its cache entry was last absent from a *)
(*            fresh process or dropped: directory scans run, scans that    *)
(*            returned an index, the indexes requests have used, and the   *)
(*            requests that got as far as the index lookup                 *)
(*   builder: the thread that runs TileProcessor.generate_tiles; progress  *)
(*            holds (current, total) of the last progress_callback call,   *)
(*            before_top the highest level directory found when the run    *)
(*            began (-1 for none) and before_base whether tile 0_0 of      *)
(*            level 0 was there, kept until the run returns its result     *)
(*   hist   : per dataset id, whether a request for it was ever answered   *)
(*            with a tile path, and whether delete_dataset removed its     *)
(*            directory and nothing has recreated it since                 *)
(*   calc   : the last call of one of the functions without side effects,  *)
(*            its arguments and what it returned                           *)
(***************************************************************************)
VARIABLES disk, cache, h, last, stats, builder, hist, calc, upload

vars == <<disk, cache, h, last, stats, builder, hist, calc, upload>>

D1 == <<"d", 1>>

D2 == <<"d", 2>>

\* the dataset ids whose requests the model follows
DatasetIds == {D1, D2}

NoMeta == IndexError("")

IdleH == [pc |-> "idle", d |-> D1, level |-> 0, col |-> 0, row |-> 0, ext |-> JPG,
          meta |-> NoMeta, cand_level |-> <<>>, cand_file |-> <<>>,
          remapped |-> FALSE, remapped_level |-> 0, remapped_col |-> 0,
          remapped_row |-> 0, direct_hit |-> FALSE, cold |-> FALSE,
          dir_existed |-> FALSE, dropped |-> FALSE]

NoLast == [outcome |-> "none", detail |-> "", d |-> D1, level |-> 0, col |-> 0,
           row |-> 0, ext |-> JPG, meta |-> NoMeta, cand_level |-> <<>>,
           cand_file |-> <<>>, media_type |-> "", remapped |-> FALSE,
           remapped_level |-> 0, remapped_col |-> 0, remapped_row |-> 0,
           direct_hit |-> FALSE, cold |-> FALSE, dir_existed |-> FALSE,
           dropped |-> FALSE]

NoStats == [scans |-> 0, ok_scans |-> 0, used |-> {}, calls |-> 0]

IdleB == [pc |-> "idle", d |-> D1, width |-> 0, height |-> 0, num_levels |-> 0,
          level |-> 0, col |-> 0, row |-> 0, tiles_generated |-> 0,
          result |-> "none", total_tiles |-> 0, progress |-> <<>>,
          before_top |-> 0 - 1, before_base |-> FALSE]

NoHist == [found |-> FALSE, deleted |-> FALSE]

NoCalc == [op |-> "none", args |-> <<>>, result |-> <<>>]

\* no upload yet: processing_status (uploads.py line 35) has no entry
IdleU == [pc |-> "none", d |-> D1, status |-> "absent", progress |-> 0, callbacks |-> 0]

\* the response of a finished request: the HTTPException detail or the path
Finished(req, outcome, detail) ==
    [outcome |-> outcome, detail |-> detail, d |-> req.d, level |-> req.level,
     col |-> req.col, row |-> req.row, ext |-> req.ext, meta |-> req.meta,
     cand_level |-> req.cand_level, cand_file |-> req.cand_file,
     media_type |-> IF outcome = "Found" THEN MediaType(req.ext) ELSE "",
     remapped |-> req.remapped, remapped_level |-> req.remapped_level,
     remapped_col |-> req.remapped_col, remapped_row |-> req.remapped_row,
     direct_hit |-> req.direct_hit, cold |-> req.cold,
     dir_existed |-> req.dir_existed, dropped |-> req.dropped]

\* the outcome a failed index lookup ends the request with
FailureOutcome(detail) ==
    CASE detail = "Dataset tiles not found" -> "DatasetMissing"
      [] detail = "No tiles available for dataset" -> "NoTilesAvailable"
      [] OTHER -> "ServerError"

\* the most scans of one dataset id the model follows between two evictions
MaxScans == 2

\* the requests counted per dataset id between two evictions (the count stops
\* there)
MaxCalls == 2

\* the key lru_cache drops when a new entry is stored in a full cache
Evicted(c) == IF Len(c) = CacheMaxSize THEN {c[Len(c)].key} ELSE {}

Counted(st) == [st EXCEPT !.calls = PyMin(@ + 1, MaxCalls)]

ResolveBeginMemoizing(d, level, col, row, ext) ==
    /\ h.pc = "idle"
    /\ LET req == [IdleH EXCEPT !.d = d, !.level = level, !.col = col,
                                !.row = row, !.ext = ext,
                                !.cold = ~CacheHas(cache, d),
                                !.dir_existed = disk[d].exists]
       IN  IF CacheHas(cache, d)
           THEN /\ h' = [req EXCEPT !.pc = "probe", !.meta = CacheVal(cache, d)]
                /\ cache' = CacheTouch(cache, d)
                /\ stats' = [stats EXCEPT
                      ![d] = Counted([@ EXCEPT !.used = @ \cup {CacheVal(cache, d)}])]
                /\ last' = NoLast
           ELSE /\ stats[d].scans < MaxScans
                /\ \E idx \in ScanOutcomes(disk[d]) :
                      /\ stats' = [x \in DatasetIds |->
                            IF x = d
                            THEN Counted([stats[d] EXCEPT
                                   !.scans = IF disk[d].exists /\ disk[d].isDir
                                             THEN @ + 1 ELSE @,
                                   !.ok_scans = IF idx.ok THEN @ + 1 ELSE @,
                                   !.used = IF idx.ok THEN @ \cup {idx} ELSE @])
                            ELSE IF idx.ok /\ x \in Evicted(cache)
                                 THEN NoStats ELSE stats[x]]
                      /\ IF idx.ok
                         THEN /\ cache' = CachePut(cache, d, idx)
                              /\ h' = [req EXCEPT !.pc = "probe", !.meta = idx,
                                                  !.dropped = Evicted(cache) # {}]
                              /\ last' = NoLast
                         ELSE /\ cache' = CachePut(cache, d, idx)
                              /\ h' = [req EXCEPT !.pc = "done"]
                              /\ last' = Finished(req, FailureOutcome(idx.detail),
                                                   idx.detail)
    /\ UNCHANGED <<upload, calc, disk, builder, hist>>

\* lines 193-199: _resolve_tile asks the cached _dataset_level_metadata for
\* the index.  A hit returns the stored tuple; a miss runs the body, and
\* lru_cache stores what it returns - an HTTPException is not stored.
ResolveBegin(d, level, col, row, ext) ==
    /\ h.pc = "idle"
    /\ LET req == [IdleH EXCEPT !.d = d, !.level = level, !.col = col,
                                !.row = row, !.ext = ext,
                                !.cold = ~CacheHas(cache, d),
                                !.dir_existed = disk[d].exists]
       IN  IF CacheHas(cache, d)
           THEN /\ h' = [req EXCEPT !.pc = "probe", !.meta = CacheVal(cache, d)]
                /\ cache' = CacheTouch(cache, d)
                /\ stats' = [stats EXCEPT
                      ![d] = Counted([@ EXCEPT !.used = @ \cup {CacheVal(cache, d)}])]
                /\ last' = NoLast
           ELSE /\ stats[d].scans < MaxScans
                /\ \E idx \in ScanOutcomes(disk[d]) :
                      /\ stats' = [x \in DatasetIds |->
                            IF x = d
                            THEN Counted([stats[d] EXCEPT
                                   !.scans = IF disk[d].exists /\ disk[d].isDir
                                             THEN @ + 1 ELSE @,
                                   !.ok_scans = IF idx.ok THEN @ + 1 ELSE @,
                                   !.used = IF idx.ok THEN @ \cup {idx} ELSE @])
                            ELSE IF idx.ok /\ x \in Evicted(cache)
                                 THEN NoStats ELSE stats[x]]
                      /\ IF idx.ok
                         THEN /\ cache' = CachePut(cache, d, idx)
                              /\ h' = [req EXCEPT !.pc = "probe", !.meta = idx,
                                                  !.dropped = Evicted(cache) # {}]
                              /\ last' = NoLast
                         ELSE /\ cache' = cache
                              /\ h' = [req EXCEPT !.pc = "done"]
                              /\ last' = Finished(req, FailureOutcome(idx.detail),
                                                   idx.detail)
    /\ UNCHANGED <<upload, calc, disk, builder, hist>>

\* lines 201-217: the direct candidate, and when it is not on disk the
\* remapped one; a level without bounds is a 404
ProbeDirect ==
    /\ h.pc = "probe"
    /\ LET direct_level == PyStr(h.level)
           direct_file == TileName(h.col, h.row, h.ext)
       IN  IF ~DirectMissing(disk[h.d], h.level, h.col, h.row, h.ext)
           THEN /\ h' = [h EXCEPT !.pc = "final", !.cand_level = direct_level,
                                  !.cand_file = direct_file, !.direct_hit = TRUE]
                /\ last' = last
           ELSE LET remapped_level == RemapLevel(h.level, h.meta)
                IN  IF ~HasBounds(h.meta, remapped_level)
                    THEN /\ h' = [h EXCEPT !.pc = "done", !.remapped = TRUE,
                                           !.remapped_level = remapped_level]
                         /\ last' = Finished(
                               [h EXCEPT !.remapped = TRUE,
                                         !.remapped_level = remapped_level],
                               "NotFound", "Tile not found")
                    ELSE LET bounds == h.meta.level_bounds[remapped_level]
                             remapped_col == RemapCol(h.col, bounds)
                             remapped_row == RemapRow(h.row, bounds)
                         IN  /\ h' = [h EXCEPT !.pc = "final", !.remapped = TRUE,
                                        !.remapped_level = remapped_level,
                                        !.remapped_col = remapped_col,
                                        !.remapped_row = remapped_row,
                                        !.cand_level = PyStr(remapped_level),
                                        !.cand_file = TileName(remapped_col,
                                                               remapped_row, h.ext)]
                             /\ last' = last
    /\ UNCHANGED <<upload, calc, disk, cache, stats, builder, hist>>

ProbeFinalTrusting ==
    /\ h.pc = "final"
    /\ h' = [h EXCEPT !.pc = "done"]
    /\ last' = IF h.direct_hit \/ FileExists(disk[h.d], h.cand_level, h.cand_file)
               THEN Finished(h, "Found", "")
               ELSE Finished(h, "NotFound", "Tile not found")
    /\ hist' = IF h.direct_hit \/ FileExists(disk[h.d], h.cand_level, h.cand_file)
               THEN [hist EXCEPT ![h.d].found = TRUE] ELSE hist
    /\ UNCHANGED <<upload, calc, disk, cache, stats, builder>>

\* lines 219-229: the candidate is looked up (again) and returned with its
\* media type, or the request ends in 404
ProbeFinal ==
    /\ h.pc = "final"
    /\ h' = [h EXCEPT !.pc = "done"]
    /\ last' = IF FileExists(disk[h.d], h.cand_level, h.cand_file)
               THEN Finished(h, "Found", "")
               ELSE Finished(h, "NotFound", "Tile not found")
    /\ hist' = IF FileExists(disk[h.d], h.cand_level, h.cand_file)
               THEN [hist EXCEPT ![h.d].found = TRUE] ELSE hist
    /\ UNCHANGED <<upload, calc, disk, cache, stats, builder>>

\* get_tile line 315, get_dzi_tile line 362: the caller takes the path, or
\* the HTTPException propagates, and the event loop is free again
ResolveReturn ==
    /\ h.pc = "done"
    /\ h' = IdleH
    /\ last' = NoLast
    /\ UNCHANGED <<upload, calc, disk, cache, stats, builder, hist>>

(***************************************************************************)
(* Serving a directory nobody is writing: the directory of D1 is drawn     *)
(* from a bounded family and tile requests are resolved against it.        *)
(***************************************************************************)
\* the highest level directory of the drawn pyramids
MaxLevel == 2

\* the widest tile grid of a drawn level is MaxGrid x MaxGrid
MaxGrid == 2

\* requests range over levels -1..MaxReqLevel, columns -1..MaxReqCol and
\* rows -1..MaxReqRow
MaxReqLevel == 4

MaxReqCol == 5

MaxReqRow == 1

RECURSIVE Pow2(_)
Pow2(n) == IF n <= 0 THEN 1 ELSE 2 * Pow2(n - 1)

Grid(cols, rows, ext) ==
    {TileName(c, r, ext) : c \in 0..(cols - 1), r \in 0..(rows - 1)}

GridSize(l) == PyMin(Pow2(l), MaxGrid)

\* a level's files: the full grid, the grid without its far corner (so the
\* largest column and the largest row are on different files), or one tile
ShapeFiles(shape, l) ==
    LET g == GridSize(l)
    IN  CASE shape = "full" -> Grid(g, g, JPG)
          [] shape = "gaps" -> Grid(g, g, JPG) \ (IF g > 1 THEN {TileName(g - 1, g - 1, JPG)} ELSE {})
          [] shape = "single" -> {TileName(0, 0, JPG)}

Shapes == {"full", "gaps", "single"}

LevelEntry(l, files) == [name |-> PyStr(l), isDir |-> TRUE, files |-> files]

\* descriptors: none, or one declaring a level above every stored one
ServeDzis == {NoDzi, SizeDzi(PyStr(Pow2(MaxLevel + 1)), PyStr(5))}

ServeDisks ==
    {AbsentDir} \cup
    {MkDir({LevelEntry(l, ShapeFiles(sh, l)) : l \in L}, dz) :
        L \in SUBSET (0..MaxLevel), sh \in Shapes, dz \in ServeDzis}

InitStatic(disks) ==
    /\ disk \in {[d \in DatasetIds |-> IF d = D1 THEN x ELSE AbsentDir] : x \in disks}
    /\ cache = <<>>
    /\ h = IdleH
    /\ last = NoLast
    /\ stats = [d \in DatasetIds |-> NoStats]
    /\ builder = IdleB
    /\ hist = [d \in DatasetIds |-> NoHist]
    /\ calc = NoCalc
    /\ upload = IdleU

InitServe == InitStatic(ServeDisks)

\* the first tile request of a fresh process, jpg or png
NextServe ==
    \/ /\ cache = <<>>
       /\ \E level \in (0 - 1)..MaxReqLevel, col \in (0 - 1)..MaxReqCol,
             row \in (0 - 1)..MaxReqRow, ext \in {JPG, PNG} :
               ResolveBegin(D1, level, col, row, ext)
    \/ ProbeDirect
    \/ ProbeFinal
    \/ ResolveReturn

SpecServe == InitServe /\ [][NextServe]_vars

(***************************************************************************)
(* Indexing a directory nobody is writing: directories with unrelated      *)
(* entries and odd tile names, and pyramids under every kind of            *)
(* descriptor; one request makes the index.                                *)
(***************************************************************************)
\* the most tile files of a drawn directory with odd names
MaxFiles == 2

RECURSIVE SubsetsUpTo(_, _)
SubsetsUpTo(S, k) ==
    IF k = 0 THEN {{}}
    ELSE LET prev == SubsetsUpTo(S, k - 1)
         IN  prev \cup {T \cup {x} : T \in prev, x \in S}

IndexDirNames == {PyStr(0), PyStr(2), <<"x">>}

IndexFileNames == {TileName(0, 0, JPG), TileName(2, 1, JPG), TileName(1, 3, PNG),
                   TileName(0 - 1, 0, JPG), TileName(3, 0 - 1, JPG),
                   <<"a", "_", "b", ".", "j", "p", "g">>}

\* the directories that hold the chosen (directory, file) pairs
EntriesOf(F) ==
    {[name |-> n, isDir |-> TRUE, files |-> {p[2] : p \in {q \in F : q[1] = n}}] :
        n \in {p[1] : p \in F}}

\* nothing more, or one more child: an empty directory or a regular file
ExtraEntries(F) ==
    {{}} \cup {{[name |-> n, isDir |-> b, files |-> {}]} :
                  n \in IndexDirNames \ {p[1] : p \in F}, b \in BOOLEAN}

OddDisks ==
    {AbsentDir, PlainFile} \cup
    UNION {{MkDir(EntriesOf(F) \cup extra, NoDzi) : extra \in ExtraEntries(F)} :
              F \in SubsetsUpTo(IndexDirNames \X IndexFileNames, MaxFiles)}

\* info.dzi: absent, not XML, without a Size element, with dimensions below
\* and above the stored levels, with a non-numeric, a missing, a zero and a
\* negative attribute
IndexDzis ==
    {NoDzi,
     [NoDzi EXCEPT !.present = TRUE],
     [NoDzi EXCEPT !.present = TRUE, !.parses = TRUE],
     SizeDzi(PyStr(2), PyStr(1)),
     SizeDzi(PyStr(5), PyStr(Pow2(MaxLevel + 1))),
     SizeDzi(<<"a">>, PyStr(5)),
     [SizeDzi(PyStr(3), PyStr(3)) EXCEPT !.Width = <<>>],
     SizeDzi(PyStr(0), PyStr(0)),
     SizeDzi(PyStr(0 - 4), PyStr(2))}

DescribedDisks ==
    {MkDir({LevelEntry(l, ShapeFiles("full", l)) : l \in L}, dz) :
        L \in SUBSET (0..MaxLevel), dz \in IndexDzis}

InitIndex == InitStatic(OddDisks \cup DescribedDisks)

\* the first tile request of a fresh process
NextIndex ==
    \/ /\ cache = <<>>
       /\ ResolveBegin(D1, 0, 0, 0, JPG)
    \/ ProbeDirect
    \/ ProbeFinal
    \/ ResolveReturn

SpecIndex == InitIndex /\ [][NextIndex]_vars

(***************************************************************************)
(* Properties of tile resolution (checked under SpecServe)                 *)
(***************************************************************************)
ClampTo(x, lo, hi) == IF x < lo THEN lo ELSE IF x > hi THEN hi ELSE x

\* the tile file <level>/<col>_<row>.<ext> is in dataset d's directory
OnDisk(d, level, col, row, ext) ==
    /\ disk[d].exists
    /\ disk[d].isDir
    /\ \E e \in disk[d].entries :
          /\ e.isDir
          /\ e.name = PyStr(level)
          /\ TileName(col, row, ext) \in e.files

\* the request has an index: it got past _dataset_level_metadata
Indexed(r) == r.outcome \in {"Found", "NotFound"}

GapOf(meta) ==
    IF meta.dzi_max_level > meta.max_available_level
    THEN meta.dzi_max_level - meta.max_available_level
    ELSE 0

\* C1: a finished request whose index was usable and whose tile file
\* <level>/<col>_<row>.<ext> is on disk ends in Found with exactly that
\* path, and the remap branch was not taken.
C1_ExactMatch ==
    (Indexed(last) /\ OnDisk(last.d, last.level, last.col, last.row, last.ext)) =>
        /\ last.outcome = "Found"
        /\ ~last.remapped
        /\ last.cand_level = PyStr(last.level)
        /\ last.cand_file = TileName(last.col, last.row, last.ext)

\* an exact match served although the index would have remapped the level
C1_Witness ==
    /\ last.outcome = "Found"
    /\ OnDisk(last.d, last.level, last.col, last.row, last.ext)
    /\ GapOf(last.meta) > 0
    /\ ClampTo(last.level - GapOf(last.meta), last.meta.min_available_level,
               last.meta.max_available_level) # last.level

\* the name ends in .<ext>
HasExt(name, ext) ==
    /\ Len(name) > Len(ext) + 1
    /\ SubSeq(name, Len(name) - Len(ext), Len(name)) = <<".">> \o ext

\* a request above every level the index can map, for a dataset that holds
\* a tile in the requested extension
AboveTop(r) ==
    /\ Indexed(r)
    /\ \E e \in disk[r.d].entries :
          e.isDir /\ \E f \in e.files : HasExt(f, r.ext)
    /\ r.level > r.meta.max_available_level + GapOf(r.meta)

\* C2 as claimed: a request above maxAvailableLevel + levelOffset on a
\* dataset with at least one tile (of the requested extension) always ends
\* in Found.
C2_AlwaysFound == AboveTop(last) => last.outcome = "Found"

\* C2 as amended: such a request ends in Found exactly when the requested
\* file, or the file at the top stored level with the column and the row
\* clamped to that level's bounds, is on disk in the requested extension;
\* otherwise it ends in NotFound.  A remapped hit is at the top level.
C2_FoundIffClampedTileStored ==
    AboveTop(last) =>
        LET top == last.meta.max_available_level
            b == last.meta.level_bounds[top]
        IN  /\ last.outcome = "Found" <=>
                 \/ OnDisk(last.d, last.level, last.col, last.row, last.ext)
                 \/ OnDisk(last.d, top, ClampTo(last.col, 0, b.max_col),
                           ClampTo(last.row, 0, b.max_row), last.ext)
            /\ (last.outcome = "Found" /\ last.remapped) =>
                   last.cand_level = PyStr(top)

\* a request above the top was clamped onto a stored tile
C2_Witness ==
    /\ AboveTop(last)
    /\ last.outcome = "Found"
    /\ last.remapped
    /\ last.col > last.meta.level_bounds[last.meta.max_available_level].max_col

\* the request in h took the remap branch and found bounds
Remapped(r) ==
    /\ r.pc \in {"final", "done"}
    /\ r.remapped
    /\ r.remapped_level \in DOMAIN r.meta.level_bounds

\* C3: in the remap branch the column is the requested column clamped into
\* 0..maxCol of the remapped level and the row likewise, from the raw
\* requested values; col = maxCol + 5 gives maxCol.
C3_ColRowClamp ==
    Remapped(h) =>
        LET b == h.meta.level_bounds[h.remapped_level]
        IN  /\ h.remapped_col = ClampTo(h.col, 0, b.max_col)
            /\ h.remapped_row = ClampTo(h.row, 0, b.max_row)
            /\ h.cand_level = PyStr(h.remapped_level)
            /\ h.cand_file = TileName(h.remapped_col, h.remapped_row, h.ext)
            /\ (h.col = b.max_col + 5) => (h.remapped_col = b.max_col)

\* col = maxCol + 5 resolved at a level moved down by a positive offset
C3_Witness ==
    /\ Remapped(h)
    /\ last.outcome = "Found"
    /\ GapOf(h.meta) > 0
    /\ h.remapped_level # h.level
    /\ h.col = h.meta.level_bounds[h.remapped_level].max_col + 5
    /\ h.remapped_col = h.meta.level_bounds[h.remapped_level].max_col

\* C4: the remap branch is taken exactly when the direct file is missing,
\* and its level is the requested level minus max(declared - maxAvailable,
\* 0), clamped into minAvailable..maxAvailable.
C4_LevelRemap ==
    (h.pc = "final" \/ (h.pc = "done" /\ Indexed(last))) =>
        /\ h.remapped <=> ~h.direct_hit
        /\ h.remapped =>
              h.remapped_level =
                  ClampTo(h.level - GapOf(h.meta), h.meta.min_available_level,
                          h.meta.max_available_level)

\* a negative level remapped under a positive offset up to a lowest stored
\* level above 0
C4_Witness ==
    /\ h.pc = "final"
    /\ h.remapped
    /\ h.level < 0
    /\ GapOf(h.meta) > 0
    /\ h.meta.min_available_level > 0
    /\ h.remapped_level = h.meta.min_available_level

(***************************************************************************)
(* Properties of the index (checked under SpecIndex)                       *)
(***************************************************************************)
\* the (col, row) pairs the tile names of a level directory parse to
ParsedTiles(files) == {TileCoords(f) : f \in files} \ {<<>>}

\* the children that are directories with an integer name
NumericDirs(dir) == {e \in dir.entries : e.isDir /\ PyInt(e.name) # <<>>}

\* a level directory with a parseable tile name
HoldsTile(e) == ParsedTiles(e.files) # {}

\* a level directory with a tile of column >= 0 and a tile of row >= 0
HoldsNonNegative(e) ==
    /\ \E c \in ParsedTiles(e.files) : c[1] >= 0
    /\ \E c \in ParsedTiles(e.files) : c[2] >= 0

\* the index idx lists exactly the directories in `kept`, with the largest
\* column and row of each and the least and greatest level
IndexLists(idx, kept) ==
    /\ DOMAIN idx.level_bounds = {PyInt(e.name)[1] : e \in kept}
    /\ \A e \in kept :
          LET b == idx.level_bounds[PyInt(e.name)[1]]
              tiles == ParsedTiles(e.files)
          IN  /\ b.max_col \in {c[1] : c \in tiles}
              /\ \A c \in tiles : c[1] <= b.max_col
              /\ b.max_row \in {c[2] : c \in tiles}
              /\ \A c \in tiles : c[2] <= b.max_row
    /\ idx.min_available_level \in DOMAIN idx.level_bounds
    /\ idx.max_available_level \in DOMAIN idx.level_bounds
    /\ \A l \in DOMAIN idx.level_bounds :
          idx.min_available_level <= l /\ l <= idx.max_available_level

\* C8 as claimed: the index lists exactly the numeric-named subdirectories
\* that hold at least one file named <col>_<row>.<ext> with integer col and
\* row, each with its largest col and row, and the least and greatest level.
C8_LevelsWithParseableTiles ==
    CacheHas(cache, D1) =>
        IndexLists(CacheVal(cache, D1), {e \in NumericDirs(disk[D1]) : HoldsTile(e)})

\* C8 as amended: the index lists exactly the numeric-named subdirectories
\* that hold a tile name with col >= 0 and a tile name with row >= 0 (a
\* directory whose parseable names all have a negative col, or all a
\* negative row, is left out), each with its largest col and row, and the
\* least and greatest level.
C8_LevelsWithNonNegativeTiles ==
    CacheHas(cache, D1) =>
        IndexLists(CacheVal(cache, D1),
                   {e \in NumericDirs(disk[D1]) : HoldsNonNegative(e)})

\* an indexed level whose largest column and largest row are on different
\* files
C8_Witness ==
    /\ CacheHas(cache, D1)
    /\ \E e \in NumericDirs(disk[D1]) :
          /\ HoldsNonNegative(e)
          /\ Cardinality(ParsedTiles(e.files)) = 2
          /\ LET b == CacheVal(cache, D1).level_bounds[PyInt(e.name)[1]]
             IN  <<b.max_col, b.max_row>> \notin ParsedTiles(e.files)

\* the dimension a descriptor attribute states: 0 when the attribute is
\* missing, <<>> when it is no integer
StatedDim(attr) == PyInt(IF attr = <<>> THEN <<"0">> ELSE attr[1])

\* info.dzi is there, parses, has a Size element whose attributes are
\* integers, one of them positive
DescriptorUsable(dzi) ==
    /\ dzi.present
    /\ dzi.parses
    /\ dzi.hasSize
    /\ StatedDim(dzi.Width) # <<>>
    /\ StatedDim(dzi.Height) # <<>>
    /\ (StatedDim(dzi.Width)[1] > 0 \/ StatedDim(dzi.Height)[1] > 0)

LargestDim(dzi) ==
    IF StatedDim(dzi.Width)[1] >= StatedDim(dzi.Height)[1]
    THEN StatedDim(dzi.Width)[1]
    ELSE StatedDim(dzi.Height)[1]

\* k = ceil(log2(n)) for n >= 1
IsCeilLog2(k, n) == k >= 0 /\ Pow2(k) >= n /\ (k > 0 => Pow2(k - 1) < n)

ColdDone == last.outcome # "none" /\ last.cold

\* C10 as claimed: DatasetNotFound exactly when the path does not exist,
\* NoTilesAvailable exactly when it exists and no numeric subdirectory holds
\* a parseable tile file, an index in every other case.
C10_ErrorOutcomesAsClaimed ==
    ColdDone =>
        LET dir == disk[last.d]
            noTiles == dir.exists /\ ~\E e \in NumericDirs(dir) : HoldsTile(e)
        IN  /\ last.outcome = "DatasetMissing" <=> ~dir.exists
            /\ last.outcome = "NoTilesAvailable" <=> noTiles
            /\ Indexed(last) <=> (dir.exists /\ ~noTiles)

\* C10 as amended: DatasetNotFound exactly when the path does not exist; an
\* uncaught NotADirectoryError exactly when it is a regular file;
\* NoTilesAvailable exactly when it is a directory in which no numeric
\* subdirectory holds a tile name with col >= 0 and one with row >= 0; an
\* index, stored in the cache, in every other case.
C10_ErrorOutcomes ==
    ColdDone =>
        LET dir == disk[last.d]
            noTiles == dir.isDir /\ ~\E e \in NumericDirs(dir) : HoldsNonNegative(e)
        IN  /\ last.outcome = "DatasetMissing" <=> ~dir.exists
            /\ last.outcome = "ServerError" <=> (dir.exists /\ ~dir.isDir)
            /\ last.outcome = "NoTilesAvailable" <=> noTiles
            /\ Indexed(last) <=> (dir.isDir /\ ~noTiles)
            /\ Indexed(last) <=> CacheHas(cache, last.d)

\* NoTilesAvailable for a directory that holds level directories, none with
\* a usable tile name
C10_Witness ==
    /\ ColdDone
    /\ last.outcome = "NoTilesAvailable"
    /\ \E e \in NumericDirs(disk[last.d]) : e.files # {}
    /\ \E e \in disk[last.d].entries : e.isDir /\ PyInt(e.name) = <<>> /\ HoldsTile(e)

(***************************************************************************)
(* TileProcessor.generate_tiles, tile_processor.py lines 146-275, run in   *)
(* a thread of its own (uploads.py process_image_background), one step per *)
(* filesystem operation                                                    *)
(***************************************************************************)
\* TileProcessorConfig.TILE_SIZE
TileSize == 256

\* validate_image, line 102
MinImageDim == 256

\* TileProcessorConfig.TILE_FORMAT
TileFormat == JPG

\* TileProcessorConfig.TILE_OVERLAP
TileOverlap == 1

create_dzi_xml_swapped(width, height, tile_size, tile_overlap, tile_format) ==
    [SizeDzi(PyStr(height), PyStr(width)) EXCEPT
        !.Format = <<tile_format>>,
        !.Overlap = <<PyStr(tile_overlap)>>,
        !.TileSize = <<PyStr(tile_size)>>]

\* create_dzi_xml, lines 118-144, with the processor's tile_size,
\* tile_overlap and tile_format: the Image element and its Size child
create_dzi_xml(width, height, tile_size, tile_overlap, tile_format) ==
    [SizeDzi(PyStr(width), PyStr(height)) EXCEPT
        !.Format = <<tile_format>>,
        !.Overlap = <<PyStr(tile_overlap)>>,
        !.TileSize = <<PyStr(tile_size)>>]

\* ceil(log2(n / t)) for positive n and t
RECURSIVE CeilLog2Up(_, _, _)
CeilLog2Up(n, t, k) == IF t * Pow2(k) >= n THEN k ELSE CeilLog2Up(n, t, k + 1)

RECURSIVE FloorLog2Up(_, _, _)
FloorLog2Up(n, t, j) == IF n * Pow2(j + 1) <= t THEN FloorLog2Up(n, t, j + 1) ELSE j

CeilLog2Quot(n, t) == IF n >= t THEN CeilLog2Up(n, t, 0) ELSE 0 - FloorLog2Up(n, t, 0)

calculate_pyramid_levels_base(width, height, tile_size) ==
    CeilLog2Quot(PyMax(width, height), tile_size)

calculate_pyramid_levels_one(width, height, tile_size) == 1

\* calculate_pyramid_levels, lines 112-116
calculate_pyramid_levels(width, height, tile_size) ==
    CeilLog2Quot(PyMax(width, height), tile_size) + 1

\* lines 212-214
LevelDim(dim, num_levels, level) == PyMax(1, dim \div Pow2(num_levels - 1 - level))

TilesAcrossFloor(level_dim, tile_size) == level_dim \div tile_size

\* lines 224-225: math.ceil(level_dim / tile_size)
TilesAcross(level_dim, tile_size) == (level_dim + tile_size - 1) \div tile_size

HasLevelDir(dir, name) == \E e \in dir.entries : e.name = name /\ e.isDir

AddLevelDir(dir, name) ==
    IF \E e \in dir.entries : e.name = name THEN dir
    ELSE [dir EXCEPT !.entries = @ \cup {[name |-> name, isDir |-> TRUE, files |-> {}]}]

AddFile(dir, name, file) ==
    [dir EXCEPT !.entries =
        {IF e.name = name /\ e.isDir THEN [e EXCEPT !.files = @ \cup {file}] ELSE e :
            e \in @}]

\* lines 193-197: the tile total announced to progress_callback
RECURSIVE TotalTilesFrom(_, _, _, _, _)
TotalTilesFrom(width, height, num_levels, tile_size, level) ==
    IF level >= num_levels THEN 0
    ELSE TilesAcross(width \div Pow2(num_levels - 1 - level), tile_size) *
         TilesAcross(height \div Pow2(num_levels - 1 - level), tile_size) +
         TotalTilesFrom(width, height, num_levels, tile_size, level + 1)

TotalTiles(width, height, num_levels, tile_size) ==
    TotalTilesFrom(width, height, num_levels, tile_size, 0)

\* the highest integer-named level directory of a dataset directory
DirTop(dir) ==
    SetMax({0 - 1} \cup {PyInt(e.name)[1] :
                             e \in {x \in dir.entries : x.isDir /\ PyInt(x.name) # <<>>}})

\* line 207: the loop goes on with the next lower level, or ends
NextLevel(bld) ==
    IF bld.level > 0
    THEN [bld EXCEPT !.pc = "leveldir", !.level = @ - 1, !.col = 0, !.row = 0]
    ELSE [bld EXCEPT !.pc = "finish", !.col = 0, !.row = 0]

\* lines 272-275: the exception leaves generate_tiles
BuildFailed == [builder EXCEPT !.pc = "idle", !.result = "error"]

\* lines 175-178: validate_image and calculate_pyramid_levels
BuildStart(d, width, height) ==
    /\ builder.pc = "idle"
    /\ builder' = IF width < MinImageDim \/ height < MinImageDim
                  THEN [IdleB EXCEPT !.d = d, !.width = width, !.height = height,
                                     !.result = "error"]
                  ELSE [IdleB EXCEPT !.pc = "clear", !.d = d, !.width = width,
                                     !.height = height,
                                     !.num_levels =
                                         calculate_pyramid_levels(width, height, TileSize),
                                     !.before_top = DirTop(disk[d]),
                                     !.before_base =
                                         FileExists(disk[d], PyStr(0),
                                                    TileName(0, 0, TileFormat))]
    /\ UNCHANGED <<upload, calc, disk, cache, h, last, stats, hist>>

BuildRmtreeSkipped ==
    /\ builder.pc = "clear"
    /\ builder' = [builder EXCEPT !.pc = "mkdir"]
    /\ UNCHANGED <<upload, calc, disk, cache, h, last, stats, hist>>

\* lines 182-183: an existing output directory is removed
BuildRmtree ==
    /\ builder.pc = "clear"
    /\ IF disk[builder.d].exists /\ ~disk[builder.d].isDir
       THEN builder' = BuildFailed /\ disk' = disk
       ELSE /\ builder' = [builder EXCEPT !.pc = "mkdir"]
            /\ disk' = [disk EXCEPT ![builder.d] = AbsentDir]
    /\ UNCHANGED <<upload, calc, cache, h, last, stats, hist>>

\* line 184: output_dir.mkdir(parents=True, exist_ok=True)
BuildMkdir ==
    /\ builder.pc = "mkdir"
    /\ IF disk[builder.d].exists /\ ~disk[builder.d].isDir
       THEN builder' = BuildFailed /\ disk' = disk /\ hist' = hist
       ELSE /\ builder' = [builder EXCEPT !.pc = "dzi"]
            /\ disk' = IF disk[builder.d].exists THEN disk
                       ELSE [disk EXCEPT ![builder.d] = MkDir({}, NoDzi)]
            /\ hist' = [hist EXCEPT ![builder.d].deleted = FALSE]
    /\ UNCHANGED <<upload, calc, cache, h, last, stats>>

\* lines 187-200: info.dzi is written with create_dzi_xml(width, height)
BuildWriteDzi ==
    /\ builder.pc = "dzi"
    /\ IF ~(disk[builder.d].exists /\ disk[builder.d].isDir)
       THEN builder' = BuildFailed /\ disk' = disk
       ELSE /\ LET total_tiles == TotalTiles(builder.width, builder.height,
                                             builder.num_levels, TileSize)
               IN  builder' = [builder EXCEPT !.pc = "leveldir",
                                              !.level = builder.num_levels - 1,
                                              !.total_tiles = total_tiles,
                                              !.progress = <<0, total_tiles>>]
            /\ disk' = [disk EXCEPT ![builder.d].dzi =
                            create_dzi_xml(builder.width, builder.height, TileSize,
                                           TileOverlap, TileFormat)]
    /\ UNCHANGED <<upload, calc, cache, h, last, stats, hist>>

\* lines 207-225: level_dir.mkdir(exist_ok=True), without parents
BuildLevelDir ==
    /\ builder.pc = "leveldir"
    /\ IF ~(disk[builder.d].exists /\ disk[builder.d].isDir)
       THEN builder' = BuildFailed /\ disk' = disk
       ELSE /\ builder' =
                 IF TilesAcross(LevelDim(builder.width, builder.num_levels,
                                         builder.level), TileSize) = 0
                    \/ TilesAcross(LevelDim(builder.height, builder.num_levels,
                                            builder.level), TileSize) = 0
                 THEN NextLevel(builder)
                 ELSE [builder EXCEPT !.pc = "tile", !.col = 0, !.row = 0]
            /\ disk' = [disk EXCEPT ![builder.d] = AddLevelDir(@, PyStr(builder.level))]
    /\ UNCHANGED <<upload, calc, cache, h, last, stats, hist>>

\* lines 228-257: one tile is cropped and saved, column by column
BuildTile ==
    /\ builder.pc = "tile"
    /\ LET dir == disk[builder.d]
           cols == TilesAcross(LevelDim(builder.width, builder.num_levels, builder.level),
                               TileSize)
           rows == TilesAcross(LevelDim(builder.height, builder.num_levels, builder.level),
                               TileSize)
           saved == [builder EXCEPT
                        !.tiles_generated = @ + 1,
                        !.progress = IF (builder.tiles_generated + 1) % 10 = 0
                                     THEN <<builder.tiles_generated + 1,
                                            builder.total_tiles>>
                                     ELSE @]
       IN  IF ~(dir.exists /\ dir.isDir /\ HasLevelDir(dir, PyStr(builder.level)))
           THEN builder' = BuildFailed /\ disk' = disk
           ELSE /\ disk' = [disk EXCEPT ![builder.d] =
                               AddFile(@, PyStr(builder.level),
                                       TileName(builder.col, builder.row, TileFormat))]
                /\ builder' =
                     IF builder.row + 1 < rows
                     THEN [saved EXCEPT !.row = @ + 1]
                     ELSE IF builder.col + 1 < cols
                     THEN [saved EXCEPT !.col = @ + 1, !.row = 0]
                     ELSE NextLevel(saved)
    /\ UNCHANGED <<upload, calc, cache, h, last, stats, hist>>

BuildTileFailsRollsBack ==
    /\ builder.pc = "tile"
    /\ disk[builder.d].exists /\ disk[builder.d].isDir
    /\ HasLevelDir(disk[builder.d], PyStr(builder.level))
    /\ builder' = [builder EXCEPT !.pc = "idle", !.result = "error"]
    /\ disk' = [disk EXCEPT ![builder.d] = AbsentDir]
    /\ UNCHANGED <<upload, calc, cache, h, last, stats, hist>>

\* lines 239-247: cropping, encoding or writing the tile raises; the file
\* may or may not have been created
BuildTileFails ==
    /\ builder.pc = "tile"
    /\ disk[builder.d].exists /\ disk[builder.d].isDir
    /\ HasLevelDir(disk[builder.d], PyStr(builder.level))
    /\ builder' = BuildFailed
    /\ \/ disk' = disk
       \/ disk' = [disk EXCEPT ![builder.d] =
                      AddFile(@, PyStr(builder.level),
                              TileName(builder.col, builder.row, TileFormat))]
    /\ UNCHANGED <<upload, calc, cache, h, last, stats, hist>>

\* lines 259-270: the result dictionary is returned
BuildFinish ==
    /\ builder.pc = "finish"
    /\ builder' = [builder EXCEPT !.pc = "idle", !.result = "ok",
                                  !.progress = <<builder.total_tiles,
                                                 builder.total_tiles>>,
                                  !.before_top = 0 - 1, !.before_base = FALSE]
    /\ UNCHANGED <<upload, calc, disk, cache, h, last, stats, hist>>

\* uploads.py delete_dataset, lines 334-345 and 388-393: a coroutine without
\* awaits, so no tile request runs meanwhile; the tile directory and the
\* processing_status entry go, the cached index is not touched
DeleteDataset(d) ==
    /\ h.pc = "idle"
    /\ disk[d].exists \/ (upload.d = d /\ upload.status # "absent")
    /\ disk' = [disk EXCEPT ![d] = AbsentDir]
    /\ hist' = [hist EXCEPT ![d].deleted = TRUE]
    /\ upload' = IF upload.d = d
                 THEN [upload EXCEPT !.status = "absent", !.progress = 0]
                 ELSE upload
    /\ UNCHANGED <<calc, cache, h, last, stats, builder>>

\* the server process is stopped and started: module state (the lru_cache,
\* processing_status) and the running threads are gone, the files stay
Restart ==
    /\ cache' = <<>>
    /\ h' = IdleH
    /\ last' = NoLast
    /\ builder' = IdleB
    /\ stats' = [d \in DatasetIds |-> NoStats]
    /\ upload' = IdleU
    /\ UNCHANGED <<calc, disk, hist>>

(***************************************************************************)
(* The running service: tile requests, a tile builder, dataset deletion    *)
(* and restarts, all directories absent at first.                          *)
(***************************************************************************)
\* images handed to the builder: one tile, two tiles wide, and too small
DynImages == {<<TileSize, TileSize>>, <<2 * TileSize, TileSize>>,
              <<TileSize - 1, TileSize>>}

\* the deepest level of the built pyramids and the level their descriptors
\* declare
DynLevels == {0, 1, CeilLog2(2 * TileSize)}

\* requests go to columns 0..MaxDynCol of row 0
MaxDynCol == 1

DynRequests ==
    {<<D1, level, col>> : level \in DynLevels, col \in 0..MaxDynCol} \cup {<<D2, 0, 0>>}

InitDyn ==
    /\ disk = [d \in DatasetIds |-> AbsentDir]
    /\ cache = <<>>
    /\ h = IdleH
    /\ last = NoLast
    /\ stats = [d \in DatasetIds |-> NoStats]
    /\ builder = IdleB
    /\ hist = [d \in DatasetIds |-> NoHist]
    /\ calc = NoCalc
    /\ upload = IdleU

BuildStep ==
    \/ BuildRmtree
    \/ BuildMkdir
    \/ BuildWriteDzi
    \/ BuildLevelDir
    \/ BuildTile
    \/ BuildFinish

Next ==
    \/ \E r \in DynRequests : ResolveBegin(r[1], r[2], r[3], 0, JPG)
    \/ ProbeDirect
    \/ ProbeFinal
    \/ ResolveReturn
    \/ \E img \in DynImages : BuildStart(D1, img[1], img[2])
    \/ BuildStep
    \/ \E d \in DatasetIds : DeleteDataset(d)
    \/ Restart

Spec == InitDyn /\ [][Next]_vars

(***************************************************************************)
(* The same service while other datasets are being requested: every        *)
(* request for a dataset id not seen before stores one more index.  The    *)
(* process has answered requests for CacheMaxSize - 1 other datasets.      *)
(***************************************************************************)
OtherId == <<"o", 0>>

OtherMeta ==
    CHOOSE m \in ScanOutcomes(MkDir({LevelEntry(0, {TileName(0, 0, JPG)})}, NoDzi)) : TRUE

\* get_tile for a dataset id that was not requested before and whose tiles
\* are on disk, start to end: its index goes to the front of the cache
OtherRequest ==
    /\ h.pc = "idle"
    /\ cache' = CachePut(cache, OtherId, OtherMeta)
    /\ stats' = [x \in DatasetIds |-> IF x \in Evicted(cache) THEN NoStats ELSE stats[x]]
    /\ UNCHANGED <<upload, calc, disk, h, last, builder, hist>>

InitLRU ==
    /\ disk = [d \in DatasetIds |-> AbsentDir]
    /\ cache = [i \in 1..(CacheMaxSize - 1) |-> [key |-> OtherId, val |-> OtherMeta]]
    /\ h = IdleH
    /\ last = NoLast
    /\ stats = [d \in DatasetIds |-> NoStats]
    /\ builder = IdleB
    /\ hist = [d \in DatasetIds |-> NoHist]
    /\ calc = NoCalc
    /\ upload = IdleU

LRUImages == {<<TileSize, TileSize>>, <<2 * TileSize, TileSize>>}

NextLRU ==
    \/ ResolveBegin(D1, 0, 0, 0, JPG)
    \/ ProbeDirect
    \/ ProbeFinal
    \/ ResolveReturn
    \/ \E img \in LRUImages : BuildStart(D1, img[1], img[2])
    \/ BuildStep
    \/ OtherRequest

SpecLRU == InitLRU /\ [][NextLRU]_vars

(***************************************************************************)
(* Properties of the index cache                                           *)
(***************************************************************************)
CachedIn(c, d) == \E i \in 1..Len(c) : c[i].key = d

CachedValIn(c, d) == c[CHOOSE i \in 1..Len(c) : c[i].key = d].val

\* C5 as stated: since a dataset id was last absent from the cache of a fresh
\* process, its directory has been scanned at most once however many
\* requests arrived, and all requests used one index
C5_OneScanPerDataset ==
    \A d \in DatasetIds :
        stats[d].scans <= 1 /\ Cardinality(stats[d].used) <= 1

\* C5: requests are served one at a time, so at most one scan runs; since a
\* dataset id was last absent from the cache at most one scan has returned
\* an index, that index is the cached one, and every request that got an
\* index used it (scans that raise are repeated by the next request)
C5_OneSuccessfulScan ==
    \A d \in DatasetIds :
        /\ stats[d].ok_scans <= 1
        /\ Cardinality(stats[d].used) <= 1
        /\ stats[d].ok_scans = 1 =>
              CachedIn(cache, d) /\ stats[d].used = {CachedValIn(cache, d)}
        /\ stats[d].ok_scans = 0 => stats[d].used = {}

C5_Witness ==
    /\ h.pc = "probe" /\ h.d = D1 /\ ~h.cold
    /\ stats[D1].calls >= 2
    /\ stats[D1].scans = 1 /\ stats[D1].ok_scans = 1
    /\ stats[D1].used = {h.meta}

\* C6: a request for a dataset id that has no cache entry and whose directory
\* delete_dataset removed (nothing recreated it) ends in DatasetMissing with
\* "Dataset tiles not found", without an index and without a path
C6_DeletedIsMissing ==
    (last.outcome # "none" /\ last.cold /\ hist[last.d].deleted) =>
        /\ last.outcome = "DatasetMissing"
        /\ last.detail = "Dataset tiles not found"
        /\ last.meta = NoMeta
        /\ last.cand_file = <<>>

C6_Witness ==
    /\ last.outcome = "DatasetMissing"
    /\ last.cold
    /\ hist[last.d].deleted
    /\ hist[last.d].found

\* the least recently used entry of a full cache makes room for another id
DroppedFor(c, c2, d) ==
    /\ Len(c) = CacheMaxSize
    /\ c[CacheMaxSize].key = d
    /\ Len(c2) = CacheMaxSize
    /\ c2[1].key # d
    /\ \A i \in 2..CacheMaxSize : c2[i] = c[i - 1]

StaysCached(d) ==
    /\ CachedIn(cache', d)
    /\ CachedValIn(cache', d) = CachedValIn(cache, d)
    /\ stats'[d].scans = stats[d].scans

UsesCached ==
    (h.pc = "idle" /\ h'.pc # "idle" /\ CachedIn(cache, h'.d)) =>
        (h'.pc = "probe" /\ h'.meta = CachedValIn(cache, h'.d))

\* C7 as stated: short of a restart nothing removes or replaces the index
\* stored for a dataset id, and requests use it without a new scan
C7_OnlyRestartRefreshes ==
    [][/\ \A d \in DatasetIds :
            (CachedIn(cache, d) /\ cache' # <<>>) => StaysCached(d)
       /\ UsesCached]_vars

\* C7: short of a restart, and unless it is the least recently used of
\* CacheMaxSize entries when another id's index is stored, the index stored
\* for a dataset id stays as it is whatever happens to the directory, and
\* requests use it without a new scan
C7_CachedUntilDropped ==
    [][/\ \A d \in DatasetIds :
            (CachedIn(cache, d) /\ cache' # <<>> /\ ~DroppedFor(cache, cache', d))
                => StaysCached(d)
       /\ UsesCached]_vars

\* a request is served from an index that no scan of the rebuilt directory
\* would return
C7_Witness ==
    /\ h.pc = "probe" /\ ~h.cold
    /\ builder.pc = "idle" /\ builder.result = "ok" /\ builder.d = h.d
    /\ h.meta \notin ScanOutcomes(disk[h.d])
    /\ \E m \in ScanOutcomes(disk[h.d]) :
          m.ok /\ m.max_available_level # h.meta.max_available_level

(***************************************************************************)
(* The functions without side effects, called on arguments drawn from      *)
(* bounded sets                                                            *)
(***************************************************************************)
\* widths, heights and tile sizes range over 1..MaxDim, and over the sizes
\* of the documented images
MaxDim == 9

DocumentedSizes == {<<4096, 4096, TileSize>>, <<42208, 9870, TileSize>>}

LevelArgs == ((1..MaxDim) \X (1..MaxDim) \X (1..MaxDim)) \cup DocumentedSizes

\* TileProcessor.calculate_pyramid_levels(width, height, tile_size)
CallLevels ==
    /\ calc = NoCalc
    /\ \E a \in LevelArgs :
          calc' = [op |-> "calculate_pyramid_levels", args |-> a,
                   result |-> <<calculate_pyramid_levels(a[1], a[2], a[3])>>]
    /\ UNCHANGED <<upload, disk, cache, h, last, stats, builder, hist>>

\* C11: for max(width, height) >= tile_size the level count is 1 + k for the
\* least k >= 0 with tile_size * 2^k >= max(width, height); it is 5 for
\* (4096, 4096, 256) and 9 for (42208, 9870, 256)
C11_LevelCount ==
    calc.op = "calculate_pyramid_levels" =>
        LET largest == IF calc.args[1] >= calc.args[2] THEN calc.args[1] ELSE calc.args[2]
            tile == calc.args[3]
            k == calc.result[1] - 1
        IN  /\ largest >= tile =>
                 /\ k >= 0
                 /\ tile * Pow2(k) >= largest
                 /\ k > 0 => tile * Pow2(k - 1) < largest
            /\ calc.args = <<4096, 4096, 256>> => calc.result = <<5>>
            /\ calc.args = <<42208, 9870, 256>> => calc.result = <<9>>

C11_Witness ==
    /\ calc.op = "calculate_pyramid_levels"
    /\ calc.args = <<42208, 9870, 256>>
    /\ calc.result = <<9>>

\* tiles.py lines 77-83: the width and height the index scan reads from a
\* descriptor, <<>> when it reads none (no file, no XML, no Size element, an
\* attribute that is no integer)
DziReadSize(dzi) ==
    IF ~dzi.present \/ ~dzi.parses \/ ~dzi.hasSize THEN <<>>
    ELSE LET width == PyInt(AttribGet(dzi.Width))
             height == PyInt(AttribGet(dzi.Height))
         IN  IF width = <<>> \/ height = <<>> THEN <<>>
             ELSE <<width[1], height[1]>>

\* descriptors (fullWidth, fullHeight, tileSize, overlap, format) with
\* dimensions in 1..MaxDim or of a documented image
DescriptorArgs ==
    {<<a[1], a[2], ts, ov, fmt>> :
        a \in ((1..MaxDim) \X (1..MaxDim)) \cup {<<s[1], s[2]>> : s \in DocumentedSizes},
        ts \in {1, TileSize}, ov \in {0, TileOverlap}, fmt \in {JPG, PNG}}

\* create_dzi_xml writes the document and the index scan reads it
CallRoundTrip ==
    /\ calc = NoCalc
    /\ \E a \in DescriptorArgs :
          LET doc == create_dzi_xml(a[1], a[2], a[3], a[4], a[5])
          IN  calc' = [op |-> "descriptor_round_trip", args |-> a,
                       result |-> <<doc, DziReadSize(doc)>>]
    /\ UNCHANGED <<upload, disk, cache, h, last, stats, builder, hist>>

InitCalc == InitDyn

NextCalc ==
    \/ CallLevels
    \/ CallRoundTrip

SpecCalc == InitCalc /\ [][NextCalc]_vars

\* C18 as stated: reading the written document gives the descriptor back in
\* all five fields
C18_RoundTripFiveFields ==
    calc.op = "descriptor_round_trip" =>
        (Len(calc.result[2]) = 5 /\ calc.result[2] = calc.args)

\* C18: the written document carries Format, Overlap and TileSize as given
\* and the reader of the code gets fullWidth and fullHeight back from it, and
\* nothing else
C18_RoundTripSize ==
    calc.op = "descriptor_round_trip" =>
        LET doc == calc.result[1]
            read == calc.result[2]
        IN  /\ read = <<calc.args[1], calc.args[2]>>
            /\ doc.TileSize # <<>> /\ PyInt(doc.TileSize[1]) = <<calc.args[3]>>
            /\ doc.Overlap # <<>> /\ PyInt(doc.Overlap[1]) = <<calc.args[4]>>
            /\ doc.Format = <<calc.args[5]>>

C18_Witness ==
    /\ calc.op = "descriptor_round_trip"
    /\ calc.args = <<42208, 9870, TileSize, TileOverlap, JPG>>
    /\ calc.result[2] = <<42208, 9870>>

\* info.dzi is an XML document without a Size element, or with a Width or
\* Height that is no integer
MalformedDzi(dzi) ==
    /\ dzi.present
    /\ dzi.parses
    /\ \/ ~dzi.hasSize
       \/ StatedDim(dzi.Width) = <<>>
       \/ StatedDim(dzi.Height) = <<>>

\* the first request has finished on a directory that has tiles to index
ColdDoneWithTiles ==
    /\ ColdDone
    /\ disk[last.d].isDir
    /\ \E e \in NumericDirs(disk[last.d]) : HoldsNonNegative(e)

\* C19 as stated: a malformed descriptor makes the lookup fail
C19_MalformedFails ==
    (ColdDoneWithTiles /\ MalformedDzi(disk[last.d].dzi)) =>
        (~Indexed(last) /\ last.outcome \notin {"Found", "NotFound"})

\* C19: a malformed descriptor raises nothing; the index is made as if there
\* were no descriptor, with the declared level equal to the highest stored
\* level, and the request is answered from it
C19_MalformedIgnored ==
    (ColdDoneWithTiles /\ MalformedDzi(disk[last.d].dzi)) =>
        /\ Indexed(last)
        /\ last.meta.dzi_max_level = last.meta.max_available_level
        /\ last.outcome \in {"Found", "NotFound"}

C19_Witness ==
    /\ ColdDoneWithTiles
    /\ MalformedDzi(disk[last.d].dzi)
    /\ StatedDim(disk[last.d].dzi.Width) = <<>>
    /\ last.outcome = "Found"

(***************************************************************************)
(* The tile builder alone: images of several shapes are built, one run     *)
(* after another, into a location that is empty, holds an older pyramid,   *)
(* or is a regular file.  With the smaller images a tile may fail to be    *)
(* written.                                                                *)
(***************************************************************************)
\* one tile; two tiles wide; 16 x 16 tiles; so wide that the lowest level is
\* less than a pixel high; too small
BuildImages ==
    {<<TileSize, TileSize>>, <<2 * TileSize, TileSize>>,
     <<16 * TileSize, 16 * TileSize>>, <<TileSize * TileSize + 1, TileSize>>,
     <<TileSize - 1, TileSize>>}

\* what an earlier run or another program left: a low and a very high level,
\* a png tile, a stray file and a descriptor
StaleDir ==
    MkDir({LevelEntry(0, {TileName(0, 0, JPG)}),
           LevelEntry(11, {TileName(0, 0, JPG), TileName(9, 9, PNG)}),
           [name |-> <<"x">>, isDir |-> FALSE, files |-> {}]},
          SizeDzi(PyStr(7), PyStr(7)))

InitBuild ==
    /\ disk \in {[d \in DatasetIds |-> IF d = D1 THEN x ELSE AbsentDir] :
                    x \in {AbsentDir, StaleDir, PlainFile}}
    /\ cache = <<>>
    /\ h = IdleH
    /\ last = NoLast
    /\ stats = [d \in DatasetIds |-> NoStats]
    /\ builder = IdleB
    /\ hist = [d \in DatasetIds |-> NoHist]
    /\ calc = NoCalc
    /\ upload = IdleU

NextBuild ==
    \/ \E img \in BuildImages : BuildStart(D1, img[1], img[2])
    \/ BuildStep

SpecBuild == InitBuild /\ [][NextBuild]_vars

\* one tile; two tiles wide; 4 x 2 tiles
FailImages ==
    {<<TileSize, TileSize>>, <<2 * TileSize, TileSize>>, <<4 * TileSize, 2 * TileSize>>}

NextBuildFail ==
    \/ \E img \in FailImages : BuildStart(D1, img[1], img[2])
    \/ BuildStep
    \/ BuildTileFails

SpecBuildFail == InitBuild /\ [][NextBuildFail]_vars

\* 1 + the least k with tile_size * 2^k >= max(width, height)
RECURSIVE LeastDoubling(_, _, _)
LeastDoubling(largest, tile_size, k) ==
    IF tile_size * Pow2(k) >= largest THEN k ELSE LeastDoubling(largest, tile_size, k + 1)

LevelsOf(width, height) ==
    1 + LeastDoubling(IF width >= height THEN width ELSE height, TileSize, 0)

\* max(1, floor(dim / 2^(N-1-level)))
LevelSide(dim, N, level) ==
    LET q == dim \div Pow2(N - 1 - level) IN IF q < 1 THEN 1 ELSE q

\* ceil(a / b)
CeilDiv(a, n) == IF a % n = 0 THEN a \div n ELSE a \div n + 1

ColsOf(width, height, level) ==
    CeilDiv(LevelSide(width, LevelsOf(width, height), level), TileSize)

RowsOf(width, height, level) ==
    CeilDiv(LevelSide(height, LevelsOf(width, height), level), TileSize)

RECURSIVE SumTiles(_, _, _)
SumTiles(width, height, level) ==
    IF level < 0 THEN 0
    ELSE ColsOf(width, height, level) * RowsOf(width, height, level)
         + SumTiles(width, height, level - 1)

\* a run has returned its result
BuildReturned == builder.pc = "idle" /\ builder.result = "ok"

\* C12: the tile count a successful build returns is the sum over the levels
\* of cols * rows, and it is the tiles-done value of the last progress
\* callback
C12_TileCount ==
    BuildReturned =>
        /\ builder.tiles_generated =
              SumTiles(builder.width, builder.height,
                       LevelsOf(builder.width, builder.height) - 1)
        /\ builder.progress # <<>>
        /\ builder.progress[1] = builder.tiles_generated

\* what the code keeps of C12: the returned count is that sum
C12_ReturnedCount ==
    BuildReturned =>
        builder.tiles_generated =
            SumTiles(builder.width, builder.height,
                     LevelsOf(builder.width, builder.height) - 1)

C12_Witness ==
    /\ BuildReturned
    /\ builder.height \div Pow2(builder.num_levels - 1) = 0
    /\ builder.progress[1] # builder.tiles_generated

\* the document create_dzi_xml makes for a width x height image
DescriptorOf(width, height) ==
    [present |-> TRUE, parses |-> TRUE, hasSize |-> TRUE,
     Width |-> <<PyStr(width)>>, Height |-> <<PyStr(height)>>,
     Format |-> <<JPG>>, Overlap |-> <<PyStr(1)>>, TileSize |-> <<PyStr(256)>>]

\* the directory a build of a width x height image into an empty location
\* leaves
FreshBuild(width, height) ==
    MkDir({LevelEntry(level, Grid(ColsOf(width, height, level),
                                  RowsOf(width, height, level), JPG)) :
              level \in 0..(LevelsOf(width, height) - 1)},
          DescriptorOf(width, height))

\* the last tile of a run has been written
BuildComplete == builder.pc = "finish" \/ BuildReturned

\* C13: when a build of an image completes, the directory is the one a build
\* of that image into an empty location leaves, whatever was there before
C13_RebuildFromScratch ==
    BuildComplete => disk[builder.d] = FreshBuild(builder.width, builder.height)

\* the run found levels above its own top level
C13_Witness ==
    /\ builder.pc = "finish"
    /\ builder.before_top >= builder.num_levels
    /\ disk[builder.d] = FreshBuild(builder.width, builder.height)

\* the (level, col, row) of the tile files in a directory
TilesOn(dir) ==
    UNION {{<<PyInt(e.name)[1], TileCoords(f)[1], TileCoords(f)[2]>> :
               f \in {g \in e.files : TileCoords(g) # <<>>}} :
              e \in {x \in dir.entries : x.isDir /\ PyInt(x.name) # <<>>}}

FilesOn(dir) == UNION {{<<e.name, f>> : f \in e.files} : e \in dir.entries}

ExpectedTiles(width, height) ==
    UNION {{<<level, col, row>> :
               col \in 0..(ColsOf(width, height, level) - 1),
               row \in 0..(RowsOf(width, height, level) - 1)} :
              level \in 0..(LevelsOf(width, height) - 1)}

\* a tile could not be written: the run raised after info.dzi was written
TileFailed ==
    /\ builder.pc = "idle"
    /\ builder.result = "error"
    /\ builder.progress # <<>>

\* C14: after a tile failed the run has raised and returned nothing, no more
\* tiles appear than those saved before plus the failing one, info.dzi and
\* the tiles of this run are still there, and nothing of the directory from
\* before the run is
C14_FailureLeavesPartial ==
    TileFailed =>
        LET dir == disk[builder.d]
        IN  /\ builder.result # "ok"
            /\ dir.exists /\ dir.isDir
            /\ dir.dzi = DescriptorOf(builder.width, builder.height)
            /\ TilesOn(dir) \subseteq ExpectedTiles(builder.width, builder.height)
            /\ Cardinality(FilesOn(dir)) \in
                  {builder.tiles_generated, builder.tiles_generated + 1}
            /\ Cardinality(TilesOn(dir)) = Cardinality(FilesOn(dir))
            /\ DirTop(dir) < builder.num_levels

\* some tiles were saved, more were to come, and the directory held higher
\* levels before
C14_Witness ==
    /\ TileFailed
    /\ builder.tiles_generated >= 1
    /\ Cardinality(FilesOn(disk[builder.d])) = builder.tiles_generated
    /\ builder.tiles_generated + 1 <
          SumTiles(builder.width, builder.height, builder.num_levels - 1)
    /\ builder.before_top >= builder.num_levels

\* C20: the tile files of a finished build are exactly the (level, col, row)
\* with 0 <= level < N, col < ceil(levelWidth / tileSize) and
\* row < ceil(levelHeight / tileSize); the top level has the size of the
\* image, 16 x 16 tiles for 4096 x 4096
C20_LevelGeometry ==
    BuildComplete =>
        LET dir == disk[builder.d]
            N == LevelsOf(builder.width, builder.height)
        IN  /\ TilesOn(dir) = ExpectedTiles(builder.width, builder.height)
            /\ Cardinality(FilesOn(dir)) = Cardinality(TilesOn(dir))
            /\ \A e \in dir.entries : e.isDir /\ PyInt(e.name) # <<>>
            /\ LevelSide(builder.width, N, N - 1) = builder.width
            /\ LevelSide(builder.height, N, N - 1) = builder.height
            /\ (builder.width = 4096 /\ builder.height = 4096) =>
                  {t \in TilesOn(dir) : t[1] = N - 1} =
                      {<<4, col, row>> : col \in 0..15, row \in 0..15}

C20_Witness ==
    /\ builder.pc = "finish"
    /\ builder.width = 4096 /\ builder.height = 4096
    /\ Cardinality({t \in TilesOn(disk[builder.d]) : t[1] = 4}) = 256

(***************************************************************************)
(* Properties of requests while the directory changes                      *)
(***************************************************************************)
\* the file <levelName>/<fileName> is in the directory
Stored(dir, levelName, fileName) ==
    /\ dir.exists
    /\ dir.isDir
    /\ \E e \in dir.entries : e.isDir /\ e.name = levelName /\ fileName \in e.files

\* C15: every step of a request reads the directory as the builder has left
\* it at that moment and nothing holds the builder back meanwhile: the
\* requested tile is taken exactly when it is there at the first lookup, the
\* answer is Found exactly when the candidate is there at the second, and
\* DatasetMissing is answered only when the directory is not there; so a
\* request that falls into a rebuild can miss a tile that every finished
\* build has
C15_ReadsDirectoryAsIs ==
    [][/\ (h.pc = "probe" /\ h'.pc \in {"final", "done"}) =>
            (h'.direct_hit <=>
                Stored(disk[h.d], PyStr(h.level), TileName(h.col, h.row, h.ext)))
       /\ (h.pc = "final" /\ h'.pc = "done") =>
            (last'.outcome = "Found" <=> Stored(disk[h.d], h.cand_level, h.cand_file))
       /\ (h.pc = "idle" /\ h'.pc = "done" /\ last'.outcome = "DatasetMissing") =>
            ~disk[h'.d].exists]_vars

\* a rebuild of a directory that held tile 0_0 of level 0 is under way and
\* delete_dataset has not removed what it wrote
Rebuilding(d) ==
    /\ builder.pc \in {"mkdir", "dzi", "leveldir", "tile"}
    /\ builder.d = d
    /\ builder.before_base
    /\ ~hist[d].deleted

\* the finished request asked for tile 0_0 of level 0, which every build has
AskedBase == last.level = 0 /\ last.col = 0 /\ last.row = 0 /\ last.ext = JPG

C15_WitnessMissing ==
    Rebuilding(last.d) /\ AskedBase /\ last.outcome = "DatasetMissing"

C15_WitnessNotFound ==
    Rebuilding(last.d) /\ AskedBase /\ last.outcome = "NotFound"

C15_WitnessOtherTile ==
    /\ Rebuilding(last.d) /\ AskedBase
    /\ last.outcome = "Found"
    /\ last.cand_level # PyStr(0)

\* a request for tile 0_0 of level 0 that fell into a rebuild was answered
\* with DatasetMissing, NotFound or a tile of another level
C15_Witness ==
    \/ C15_WitnessMissing
    \/ C15_WitnessNotFound
    \/ C15_WitnessOtherTile

\* the entries of the other dataset ids, in order
RECURSIVE Without(_, _)
Without(c, d) ==
    IF c = <<>> THEN <<>>
    ELSE IF Head(c).key = d THEN Without(Tail(c), d)
    ELSE <<Head(c)>> \o Without(Tail(c), d)

HowMany(c, d) == Cardinality({i \in 1..Len(c) : c[i].key = d})

Entries(c) == {c[i] : i \in 1..Len(c)}

\* C16 as stated: a step of a request leaves every directory as it is, and
\* takes no entry of another dataset id out of the cache
C16_OnlyAddsOwnEntry ==
    [][h' # h =>
          /\ disk' = disk
          /\ Len(Without(cache', h'.d)) = Len(Without(cache, h'.d))
          /\ Entries(Without(cache', h'.d)) = Entries(Without(cache, h'.d))
          /\ HowMany(cache', h'.d) >= HowMany(cache, h'.d)]_vars

\* C16: a step of a request leaves every directory and the builder as they
\* are; only the index lookup touches the cache: a hit moves the entry of the
\* requested id to the front, a miss that makes an index puts it in front
\* and, when CacheMaxSize entries are stored, pushes the last one out; the
\* entries of the other ids keep their order and content
C16_ReadOnly ==
    [][h' # h =>
          /\ disk' = disk
          /\ builder' = builder
          /\ h.pc # "idle" => cache' = cache
          /\ \/ cache' = cache
             \/ /\ cache'[1].key = h'.d
                /\ HowMany(cache', h'.d) = 1
                /\ \/ Without(cache', h'.d) = Without(cache, h'.d)
                   \/ /\ Len(cache) = CacheMaxSize
                      /\ HowMany(cache, h'.d) = 0
                      /\ Without(cache', h'.d) = SubSeq(cache, 1, CacheMaxSize - 1)]_vars

\* an index was stored for a dataset id that had been served before and had
\* lost its entry, into a full cache
C16_Witness ==
    /\ h.pc = "probe"
    /\ h.cold
    /\ h.dropped
    /\ hist[h.d].found
    /\ Len(cache) = CacheMaxSize
    /\ cache[1].key = h.d

FailedOutcomes == {"DatasetMissing", "NoTilesAvailable", "NotFound"}

\* C17 as stated: a request that fails has changed no other dataset id's
\* cache entry
C17_FailureDropsNothing ==
    last.outcome \in FailedOutcomes => ~last.dropped

\* C17: a request that ends in DatasetMissing or NoTilesAvailable has stored
\* and dropped nothing; one that ends in NotFound had an index, which is in
\* front of the cache, and has pushed another id's entry out only if that
\* index was not cached and the cache is full
C17_FailureDropsOnlyWhenStoring ==
    /\ Len(cache) <= CacheMaxSize
    /\ last.outcome \in {"DatasetMissing", "NoTilesAvailable"} =>
          /\ ~last.dropped
          /\ last.cold
          /\ HowMany(cache, last.d) = 0
    /\ last.outcome = "NotFound" =>
          /\ HowMany(cache, last.d) = 1
          /\ cache[1].key = last.d
          /\ last.dropped => (last.cold /\ Len(cache) = CacheMaxSize)

C17_Witness ==
    /\ last.outcome = "NotFound"
    /\ last.dropped
    /\ Len(cache) = CacheMaxSize

(***************************************************************************)
(* The crop box of one tile, tile_processor.py lines 231-239               *)
(***************************************************************************)
crop_box_unclipped(level_width, level_height, col, row, tile_size, tile_overlap) ==
    <<PyMax(0, col * tile_size - tile_overlap),
      PyMax(0, row * tile_size - tile_overlap),
      col * tile_size + tile_size + tile_overlap,
      row * tile_size + tile_size + tile_overlap>>

\* lines 231-236: (x1, y1, x2, y2) handed to current_img.crop
crop_box(level_width, level_height, col, row, tile_size, tile_overlap) ==
    <<PyMax(0, col * tile_size - tile_overlap),
      PyMax(0, row * tile_size - tile_overlap),
      PyMin(level_width, col * tile_size + tile_size + tile_overlap),
      PyMin(level_height, row * tile_size + tile_size + tile_overlap)>>

\* level sizes around the tile size: lines 213-214 give any size from 1 up
CropDims == {1, TileSize - 1, TileSize, TileSize + 1, 2 * TileSize,
             2 * TileSize + 1, 3 * TileSize - 1}

\* lines 224-239 for one tile of one level
CallCrop ==
    /\ calc = NoCalc
    /\ \E level_width \in CropDims, level_height \in CropDims :
          \E col \in 0..(TilesAcross(level_width, TileSize) - 1),
             row \in 0..(TilesAcross(level_height, TileSize) - 1) :
             calc' = [op |-> "crop",
                      args |-> <<level_width, level_height, col, row>>,
                      result |-> crop_box(level_width, level_height, col, row,
                                          TileSize, TileOverlap)]
    /\ UNCHANGED <<upload, disk, cache, h, last, stats, builder, hist>>

NextCrop == CallCrop

SpecCrop == InitCalc /\ [][NextCrop]_vars

\* the columns whose box holds pixel x of a level level_width wide
ColsHolding(x, level_width) ==
    {col \in 0..(TilesAcross(level_width, TileSize) - 1) :
        LET box == crop_box(level_width, 1, col, 0, TileSize, TileOverlap)
        IN  box[1] <= x /\ x < box[3]}

RowsHolding(y, level_height) ==
    {row \in 0..(TilesAcross(level_height, TileSize) - 1) :
        LET box == crop_box(1, level_height, 0, row, TileSize, TileOverlap)
        IN  box[2] <= y /\ y < box[4]}

\* C21: the box of tile (col, row) starts one overlap before the tile's
\* corner, not below 0, and ends one overlap after the tile's far corner, not
\* beyond the level; it is not empty and lies in the level, and every pixel
\* column and pixel row of the level is in the box of some tile
C21_TileRegions ==
    calc.op = "crop" =>
        LET level_width == calc.args[1]
            level_height == calc.args[2]
            col == calc.args[3]
            row == calc.args[4]
            x1 == calc.result[1]
            y1 == calc.result[2]
            x2 == calc.result[3]
            y2 == calc.result[4]
            lo(i) == IF i * TileSize - TileOverlap > 0
                     THEN i * TileSize - TileOverlap ELSE 0
            hi(i, size) == IF i * TileSize + TileSize + TileOverlap < size
                           THEN i * TileSize + TileSize + TileOverlap ELSE size
        IN  /\ x1 = lo(col) /\ x2 = hi(col, level_width)
            /\ y1 = lo(row) /\ y2 = hi(row, level_height)
            /\ 0 <= x1 /\ x1 < x2 /\ x2 <= level_width
            /\ 0 <= y1 /\ y1 < y2 /\ y2 <= level_height
            /\ \A x \in 0..(level_width - 1) : ColsHolding(x, level_width) # {}
            /\ \A y \in 0..(level_height - 1) : RowsHolding(y, level_height) # {}

\* an inner tile of a level three tiles wide, cut on both sides with overlap
C21_Witness ==
    /\ calc.op = "crop"
    /\ calc.args = <<3 * TileSize - 1, 2 * TileSize + 1, 1, 2>>
    /\ calc.result = <<TileSize - 1, 2 * TileSize - 1, 2 * TileSize + 1, 2 * TileSize + 1>>

(***************************************************************************)
(* TileProcessor.validate_image, tile_processor.py lines 64-109, on a      *)
(* source file [exists, suffix, st_size, decodes, width, height]           *)
(***************************************************************************)
UpperCase == <<"A", "B", "C", "D", "E", "F", "G", "H", "I", "J", "K", "L", "M",
               "N", "O", "P", "Q", "R", "S", "T", "U", "V", "W", "X", "Y", "Z">>

LowerCase == <<"a", "b", "c", "d", "e", "f", "g", "h", "i", "j", "k", "l", "m",
               "n", "o", "p", "q", "r", "s", "t", "u", "v", "w", "x", "y", "z">>

\* str.lower()
PyLower(s) ==
    [i \in 1..Len(s) |->
        IF \E k \in 1..Len(UpperCase) : UpperCase[k] = s[i]
        THEN LowerCase[CHOOSE k \in 1..Len(UpperCase) : UpperCase[k] = s[i]]
        ELSE s[i]]

\* TileProcessorConfig.ALLOWED_EXTENSIONS
AllowedExtensions == {<<".", "j", "p", "g">>, <<".", "j", "p", "e", "g">>,
                      <<".", "p", "n", "g">>, <<".", "t", "i", "f", "f">>,
                      <<".", "t", "i", "f">>}

\* TileProcessorConfig.MAX_FILE_SIZE_MB
MaxFileSizeMb == 1500

BytesPerMb == 1024 * 1024

Invalid(detail) == [ok |-> FALSE, detail |-> detail, width |-> 0, height |-> 0]

validate_image_any_suffix(image) ==
    IF ~image.exists THEN Invalid("Image file not found")
    ELSE IF image.st_size > MaxFileSizeMb * BytesPerMb THEN Invalid("File too large")
    ELSE IF ~image.decodes THEN Invalid("Failed to read image")
    ELSE IF image.width < MinImageDim \/ image.height < MinImageDim
         THEN Invalid("Failed to read image: Image too small")
    ELSE [ok |-> TRUE, detail |-> "", width |-> image.width, height |-> image.height]

\* lines 78-109: the dimensions, or the message of the TileProcessingError;
\* the error of line 103 is caught by line 108 and raised again in a new one
validate_image(image) ==
    IF ~image.exists THEN Invalid("Image file not found")
    ELSE IF PyLower(image.suffix) \notin AllowedExtensions
         THEN Invalid("Unsupported file type")
    ELSE IF image.st_size > MaxFileSizeMb * BytesPerMb THEN Invalid("File too large")
    ELSE IF ~image.decodes THEN Invalid("Failed to read image")
    ELSE IF image.width < MinImageDim \/ image.height < MinImageDim
         THEN Invalid("Failed to read image: Image too small")
    ELSE [ok |-> TRUE, detail |-> "", width |-> image.width, height |-> image.height]

\* lines 173-178 and 272-273: generate_tiles validates the source file
\* first; the TileProcessingError of validate_image leaves generate_tiles as
\* it is, and otherwise the level count is computed and the build goes on
GenerateTiles(d, image) ==
    /\ builder.pc = "idle"
    /\ LET checked == validate_image(image)
       IN  /\ calc' = [op |-> "validate_image", args |-> <<d, image>>,
                       result |-> <<checked>>]
           /\ builder' =
                 IF ~checked.ok
                 THEN [IdleB EXCEPT !.d = d, !.result = "error"]
                 ELSE [IdleB EXCEPT !.pc = "clear", !.d = d,
                                    !.width = checked.width,
                                    !.height = checked.height,
                                    !.num_levels =
                                        calculate_pyramid_levels(checked.width,
                                                                 checked.height, TileSize),
                                    !.before_top = DirTop(disk[d]),
                                    !.before_base =
                                        FileExists(disk[d], PyStr(0),
                                                   TileName(0, 0, TileFormat))]
    /\ UNCHANGED <<upload, disk, cache, h, last, stats, hist>>

GoodImage == [exists |-> TRUE, suffix |-> <<".", "j", "p", "g">>, st_size |-> BytesPerMb,
              decodes |-> TRUE, width |-> MinImageDim, height |-> MinImageDim]

\* source files at and beyond each limit of validate_image
PreflightImages ==
    {GoodImage,
     [GoodImage EXCEPT !.suffix = <<".", "P", "N", "G">>, !.width = 2 * TileSize,
                       !.st_size = MaxFileSizeMb * BytesPerMb],
     [GoodImage EXCEPT !.suffix = <<".", "t", "i", "f">>, !.width = 2 * TileSize,
                       !.height = 2 * TileSize],
     [GoodImage EXCEPT !.exists = FALSE],
     [GoodImage EXCEPT !.suffix = <<".", "g", "i", "f">>],
     [GoodImage EXCEPT !.suffix = <<>>],
     [GoodImage EXCEPT !.st_size = MaxFileSizeMb * BytesPerMb + 1],
     [GoodImage EXCEPT !.decodes = FALSE],
     [GoodImage EXCEPT !.width = MinImageDim - 1],
     [GoodImage EXCEPT !.height = MinImageDim - 1, !.width = 2 * TileSize]}

NextPreflight ==
    \/ \E image \in PreflightImages : GenerateTiles(D1, image)
    \/ BuildStep

SpecPreflight == InitBuild /\ [][NextPreflight]_vars

\* C22: a call of generate_tiles on a source file that does not exist, has a
\* suffix outside .jpg .jpeg .png .tiff .tif (in any case), is larger than
\* 1500 MB, or is less than 256 wide or high, ends in an error before any
\* step of the build, and every directory is as it was
C22_PreflightRejects ==
    [][(calc' # calc /\ calc'.op = "validate_image") =>
          LET image == calc'.args[2]
              suffix == image.suffix
              bad == \/ ~image.exists
                     \/ suffix \notin {<<".", a, b, c>> : a \in {"j", "J"}, b \in {"p", "P"},
                                                    c \in {"g", "G"}}
                               \cup {<<".", a, b, c>> : a \in {"p", "P"}, b \in {"n", "N"},
                                                    c \in {"g", "G"}}
                               \cup {<<".", "j", "p", "e", "g">>, <<".", "t", "i", "f", "f">>,
                                     <<".", "t", "i", "f">>}
                     \/ image.st_size > 1500 * 1024 * 1024
                     \/ image.width < 256
                     \/ image.height < 256
          IN  bad => /\ builder'.pc = "idle"
                     /\ builder'.result = "error"
                     /\ ~calc'.result[1].ok
                     /\ disk' = disk]_vars

\* a source file too large for validation was handed in for a dataset id
\* whose directory holds an earlier pyramid, which is still all there
C22_Witness ==
    /\ calc.op = "validate_image"
    /\ calc.args[2].st_size > MaxFileSizeMb * BytesPerMb
    /\ calc.result[1].detail = "File too large"
    /\ builder.pc = "idle"
    /\ builder.result = "error"
    /\ disk[calc.args[1]] = StaleDir

(***************************************************************************)
(* The progress reports of a build, tile_processor.py lines 199-260, and   *)
(* the percentage uploads.py keeps of them                                 *)
(***************************************************************************)
\* uploads.py line 87: int((current / total) * 100) if total > 0 else 0
progress_percent(current, total) ==
    IF total > 0 THEN (current * 100) \div total ELSE 0

\* one tile; 16 x 16 tiles; 520 tiles, the last of them on a level less than
\* a pixel high
ProgressImages ==
    {<<TileSize, TileSize>>, <<16 * TileSize, 16 * TileSize>>,
     <<TileSize * TileSize + TileSize \div 2, TileSize>>}

NextProgress ==
    \/ \E img \in ProgressImages : BuildStart(D1, img[1], img[2])
    \/ BuildStep

SpecProgress == InitBuild /\ [][NextProgress]_vars

\* C23: every progress report (tilesDone, tilesTotal) of a build has
\* 0 <= tilesDone <= tilesTotal, tilesDone is not below that of the report
\* before it, and the percentage kept of it is in 0..100
C23_ProgressBounds ==
    [][builder'.progress # <<>> =>
          /\ 0 <= builder'.progress[1]
          /\ builder'.progress[1] <= builder'.progress[2]
          /\ progress_percent(builder'.progress[1], builder'.progress[2]) \in 0..100
          /\ builder.progress # <<>> => builder'.progress[1] >= builder.progress[1]]_vars

\* a report of more tiles done than the total it announces
C23_Witness ==
    /\ builder.progress # <<>>
    /\ builder.progress[1] > builder.progress[2]
    /\ builder.tiles_generated = builder.progress[1]

\* what holds of the reports: tilesDone is 0, a multiple of 10 up to the
\* tiles written, or the announced total; the percentage is never negative
C23_ReportsTilesWritten ==
    builder.progress # <<>> =>
        /\ builder.progress[2] = builder.total_tiles
        /\ \/ builder.progress[1] = 0
           \/ builder.progress[1] = builder.total_tiles
           \/ /\ builder.progress[1] % 10 = 0
              /\ builder.progress[1] <= builder.tiles_generated
        /\ progress_percent(builder.progress[1], builder.progress[2]) >= 0

(***************************************************************************)
(* Properties of the remap branch (checked under SpecServe)                *)
(***************************************************************************)
\* the request in h took the remap branch, with or without bounds
TookRemap(r) == r.pc \in {"final", "done"} /\ r.remapped

\* C24 as stated: every request that takes the remap branch gets a
\* candidate tile out of the bounds lookup and the clamping
C24_LookupAlwaysYields ==
    TookRemap(h) =>
        /\ h.cand_level # <<>>
        /\ h.cand_file # <<>>

\* C24: a request in the remap branch whose remapped level has bounds gets
\* the candidate <remapped level>/<clamped col>_<clamped row>.<ext>; one
\* whose remapped level has none ends there in NotFound, 'Tile not found',
\* without a candidate, and that level lies strictly between the lowest and
\* the highest level that hold tiles
C24_LookupYieldsOrNotFound ==
    TookRemap(h) =>
        IF h.remapped_level \in DOMAIN h.meta.level_bounds
        THEN LET b == h.meta.level_bounds[h.remapped_level]
             IN  /\ h.cand_level = PyStr(h.remapped_level)
                 /\ h.cand_file = TileName(ClampTo(h.col, 0, b.max_col),
                                           ClampTo(h.row, 0, b.max_row), h.ext)
        ELSE /\ h.pc = "done"
             /\ last.outcome = "NotFound"
             /\ last.detail = "Tile not found"
             /\ h.cand_level = <<>>
             /\ h.cand_file = <<>>
             /\ h.meta.min_available_level < h.remapped_level
             /\ h.remapped_level < h.meta.max_available_level

\* levels 0 and 2 hold tiles, level 1 does not, and a request was remapped
\* to level 1
C24_Witness ==
    /\ TookRemap(h)
    /\ h.meta.min_available_level = 0
    /\ h.meta.max_available_level = 2
    /\ h.remapped_level = 1
    /\ DOMAIN h.meta.level_bounds = {0, 2}
    /\ last.outcome = "NotFound"

\* C26: an index has minAvailableLevel <= maxAvailableLevel <=
\* declaredMaxLevel, and a request that took the remap branch and found
\* bounds has its remapped level in minAvailableLevel..maxAvailableLevel, its
\* column in 0..maxCol and its row in 0..maxRow of that level, whatever the
\* sign of the requested level, column and row
C26_RemapInsideGrid ==
    (h.pc \in {"probe", "final"} \/ (h.pc = "done" /\ Indexed(last))) =>
        /\ h.meta.min_available_level <= h.meta.max_available_level
        /\ h.meta.max_available_level <= h.meta.dzi_max_level
        /\ h.meta.dzi_max_level - h.meta.max_available_level >= 0
        /\ Remapped(h) =>
              LET b == h.meta.level_bounds[h.remapped_level]
              IN  /\ h.meta.min_available_level <= h.remapped_level
                  /\ h.remapped_level <= h.meta.max_available_level
                  /\ 0 <= h.remapped_col /\ h.remapped_col <= b.max_col
                  /\ 0 <= h.remapped_row /\ h.remapped_row <= b.max_row

\* level, column and row all negative, remapped onto the lowest stored level
\* above 0
C26_Witness ==
    /\ Remapped(h)
    /\ h.level < 0 /\ h.col < 0 /\ h.row < 0
    /\ h.meta.min_available_level > 0
    /\ h.remapped_level = h.meta.min_available_level
    /\ h.remapped_col = 0 /\ h.remapped_row = 0
    /\ last.outcome = "Found"

\* C25: the step that ends a request in Found is the lookup of line 219, and
\* the returned file is in the directory at that step, however old the
\* index; a request answered from a cached index for a dataset id whose
\* directory is gone ends in NotFound, 'Tile not found', and returns no path
C25_NoStaleHits ==
    [][(h.pc # "done" /\ h'.pc = "done") =>
          /\ last'.outcome = "Found" =>
                /\ h.pc = "final"
                /\ Stored(disk'[h'.d], h'.cand_level, h'.cand_file)
          /\ (~h'.cold /\ ~disk'[h'.d].exists) =>
                /\ last'.outcome = "NotFound"
                /\ last'.detail = "Tile not found"
                /\ last'.media_type = ""]_vars

\* a dataset that was served was deleted, its index is still cached, and a
\* request for it ended in NotFound
C25_Witness ==
    /\ last.outcome = "NotFound"
    /\ ~last.cold
    /\ last.meta.ok
    /\ hist[last.d].found
    /\ hist[last.d].deleted
    /\ ~disk[last.d].exists
    /\ CachedIn(cache, last.d)

(***************************************************************************)
(* TileProcessor.get_processing_status, tile_processor.py lines 277-303,   *)
(* asked while a build may be running                                      *)
(***************************************************************************)
\* line 297: output_dir.rglob("*.jpg"), counted
JpgCount(dir) ==
    Cardinality(UNION {{<<e.name, f>> : f \in {g \in e.files : HasExt(g, TileFormat)}} :
                          e \in {x \in dir.entries : x.isDir}})
    + Cardinality({e \in dir.entries : ~e.isDir /\ HasExt(e.name, TileFormat)})

\* lines 287-303: None, 'processing' without a descriptor, else 'complete'
get_processing_status(dir) ==
    IF ~dir.exists THEN [status |-> "None", tile_count |-> 0]
    ELSE IF ~dir.dzi.present THEN [status |-> "processing", tile_count |-> 0]
    ELSE [status |-> "complete", tile_count |-> JpgCount(dir)]

GetProcessingStatus(d) ==
    /\ calc' = [op |-> "get_processing_status", args |-> <<d>>,
                result |-> <<get_processing_status(disk[d])>>]
    /\ UNCHANGED <<upload, disk, cache, h, last, stats, builder, hist>>

NextStatus ==
    \/ \E img \in FailImages : BuildStart(D1, img[1], img[2])
    \/ BuildStep
    \/ GetProcessingStatus(D1)

SpecStatus == InitBuild /\ [][NextStatus]_vars

\* the build for d has level directories or tiles left to write
WritingTiles(d) == builder.d = d /\ builder.pc \in {"leveldir", "tile"}

\* C27: get_processing_status(id) answers 'processing' whenever a build for
\* id is still writing tiles, and so 'complete' only when none is
C27_CompleteOnlyWhenBuilt ==
    [][(calc' # calc /\ calc'.op = "get_processing_status") =>
          /\ WritingTiles(calc'.args[1]) => calc'.result[1].status = "processing"
          /\ calc'.result[1].status = "complete" => ~WritingTiles(calc'.args[1])]_vars

\* 'complete' was answered with 3 tiles counted, and the build is at its
\* fourth tile of 11
C27_Witness ==
    /\ calc.op = "get_processing_status"
    /\ calc.result[1] = [status |-> "complete", tile_count |-> 3]
    /\ WritingTiles(calc.args[1])
    /\ builder.tiles_generated = 3
    /\ builder.total_tiles = 11

\* what holds: 'complete' is answered exactly when the directory holds a
\* descriptor, which a build writes before its first tile
C27_CompleteIffDescriptor ==
    calc.op = "get_processing_status" =>
        /\ calc.result[1].status \in {"None", "processing", "complete"}
        /\ (WritingTiles(calc.args[1]) /\ disk[calc.args[1]].exists) =>
              disk[calc.args[1]].dzi.present

\* C28: for an image at least one tile wide and high the level count is at
\* least 1, and level 0, the image halved N - 1 times, is one tile wide and
\* one tile high: its only tile is (0, 0)
C28_CoarsestLevelOneTile ==
    (/\ calc.op = "calculate_pyramid_levels"
     /\ calc.args[1] >= calc.args[3]
     /\ calc.args[2] >= calc.args[3]) =>
        LET width == calc.args[1]
            height == calc.args[2]
            tile == calc.args[3]
            N == calc.result[1]
            level_width == LevelDim(width, N, 0)
            level_height == LevelDim(height, N, 0)
        IN  /\ N >= 1
            /\ 1 <= level_width /\ level_width <= tile
            /\ 1 <= level_height /\ level_height <= tile
            /\ TilesAcross(level_width, tile) = 1
            /\ TilesAcross(level_height, tile) = 1
            /\ (0..(TilesAcross(level_width, tile) - 1)) \X
               (0..(TilesAcross(level_height, tile) - 1)) = {<<0, 0>>}

\* the 4096 x 4096 image: five levels, level 0 exactly one tile in size
C28_Witness ==
    /\ calc.op = "calculate_pyramid_levels"
    /\ calc.args = <<16 * TileSize, 16 * TileSize, TileSize>>
    /\ calc.result = <<5>>
    /\ LevelDim(calc.args[1], calc.result[1], 0) = TileSize

\* C29: a request that ends in DatasetMissing or NoTilesAvailable came from
\* a scan, returns no index and leaves the cache without an entry for its
\* dataset id; and a request for an id without an entry scans the directory
\* as it then is
C29_FailedScanNotStored ==
    [][/\ last'.outcome \in {"DatasetMissing", "NoTilesAvailable"} =>
             /\ last'.cold
             /\ last'.meta = NoMeta
             /\ HowMany(cache', last'.d) = 0
       /\ (h.pc = "idle" /\ h'.pc # "idle" /\ HowMany(cache, h'.d) = 0) =>
             /\ h'.cold
             /\ h'.pc = "probe" =>
                   /\ h'.meta \in ScanOutcomes(disk[h'.d])
                   /\ h'.meta.ok]_vars

\* a scan of the dataset id found no tiles, a second scan found them, and
\* the request ended in Found
C29_Witness ==
    /\ last.outcome = "Found"
    /\ last.cold
    /\ stats[last.d].scans = 2
    /\ stats[last.d].ok_scans = 1
    /\ stats[last.d].calls = 2

(***************************************************************************)
(* An upload, uploads.py: upload_image accepts the file and queues         *)
(* process_image_background, which runs in a worker thread and keeps the   *)
(* processing_status entry of the dataset id; generate_tiles is seen from  *)
(* its caller: progress callbacks, then a result or an exception           *)
(***************************************************************************)
\* the progress callbacks followed within one run
MaxCallbacks == 3

\* (current, total) of a progress callback: the first, one on the way, the
\* last, and one that is past the announced total
UploadReports == {<<0, 11>>, <<10, 11>>, <<11, 11>>, <<520, 519>>}

\* lines 204-266: a request that is no image or fails validate_image is
\* answered 400 and leaves no entry; an accepted one is queued
UploadImage(is_image, image) ==
    /\ upload.pc = "none"
    /\ upload' = IF is_image /\ validate_image(image).ok
                 THEN [upload EXCEPT !.pc = "queued", !.status = "queued",
                                     !.progress = 0]
                 ELSE upload
    /\ UNCHANGED <<disk, cache, h, last, stats, builder, hist, calc>>

\* lines 77-83: the background task starts
RunBegin ==
    /\ upload.pc = "queued"
    /\ upload' = [upload EXCEPT !.pc = "tiles", !.status = "processing",
                                !.progress = 0]
    /\ UNCHANGED <<disk, cache, h, last, stats, builder, hist, calc>>

\* lines 85-92: generate_tiles calls progress_callback
RunCallback(current, total) ==
    /\ upload.pc = "tiles"
    /\ upload.callbacks < MaxCallbacks
    /\ upload' = [upload EXCEPT !.status = "processing",
                                !.progress = progress_percent(current, total),
                                !.callbacks = @ + 1]
    /\ UNCHANGED <<disk, cache, h, last, stats, builder, hist, calc>>

\* lines 95-99: generate_tiles returns its result
RunTilesReturn ==
    /\ upload.pc = "tiles"
    /\ upload' = [upload EXCEPT !.pc = "commit"]
    /\ UNCHANGED <<disk, cache, h, last, stats, builder, hist, calc>>

RunTilesRaiseUnhandled ==
    /\ upload.pc = "tiles"
    /\ upload' = [upload EXCEPT !.pc = "failed"]
    /\ UNCHANGED <<disk, cache, h, last, stats, builder, hist, calc>>

\* lines 155-181: generate_tiles raises TileProcessingError or another
\* Exception; either handler sets the entry first
RunTilesRaise ==
    /\ upload.pc = "tiles"
    /\ upload' = [upload EXCEPT !.pc = "failed", !.status = "error", !.progress = 0]
    /\ UNCHANGED <<disk, cache, h, last, stats, builder, hist, calc>>

\* lines 101-122: the Dataset row is added and committed, or that raises
RunCommit ==
    /\ upload.pc = "commit"
    /\ \/ upload' = [upload EXCEPT !.pc = "cleanup"]
       \/ upload' = [upload EXCEPT !.pc = "failed", !.status = "error", !.progress = 0]
    /\ UNCHANGED <<disk, cache, h, last, stats, builder, hist, calc>>

\* lines 124-153: the clean-up keeps its exceptions to itself, and the entry
\* is set to complete
RunComplete ==
    /\ upload.pc = "cleanup"
    /\ upload' = [upload EXCEPT !.pc = "finished", !.status = "complete",
                                !.progress = 100]
    /\ UNCHANGED <<disk, cache, h, last, stats, builder, hist, calc>>

\* lines 280-303: GET /status/{dataset_id}
GetUploadStatus(d) ==
    /\ calc' = [op |-> "get_processing_status", args |-> <<d>>,
                result |-> IF upload.d = d /\ upload.status # "absent"
                           THEN <<upload.status, upload.progress>>
                           ELSE <<"404">>]
    /\ UNCHANGED <<disk, cache, h, last, stats, builder, hist, upload>>

RunStep ==
    \/ RunBegin
    \/ \E r \in UploadReports : RunCallback(r[1], r[2])
    \/ RunTilesReturn
    \/ RunTilesRaise
    \/ RunCommit
    \/ RunComplete

NextUpload ==
    \/ \E is_image \in BOOLEAN, image \in PreflightImages : UploadImage(is_image, image)
    \/ RunStep
    \/ DeleteDataset(D1)
    \/ GetUploadStatus(D1)

\* the worker thread of a queued task runs, and goes on running, until
\* process_image_background returns
SpecUpload == InitDyn /\ [][NextUpload]_vars /\ WF_vars(RunStep)

RunEnded == upload.pc \in {"finished", "failed"}

\* C30: the entry is set to queued when the upload is accepted, to
\* processing by the run that follows, and from processing to complete or
\* to error by the step that ends the run; after that the entry is not set
\* to queued or processing again; and a run that was queued or has started
\* ends
C30_StatusLifecycle ==
    /\ [][/\ (upload'.status = "queued" /\ upload' # upload) => upload.pc = "none"
          /\ upload.status = "queued" =>
                upload'.status \in {"queued", "processing", "absent"}
          /\ upload.status = "processing" =>
                upload'.status \in {"processing", "complete", "error", "absent"}
          /\ upload.status \in {"complete", "error"} =>
                upload'.status \in {upload.status, "absent"}
          /\ (upload'.pc \in {"finished", "failed"} /\ upload.pc # upload'.pc) =>
                /\ upload.pc \in {"tiles", "commit", "cleanup"}
                /\ upload'.status = IF upload'.pc = "finished" THEN "complete" ELSE "error"
          /\ upload.pc \in {"finished", "failed"} =>
                /\ upload'.pc = upload.pc
                /\ upload'.status \notin {"queued", "processing"}
          /\ upload'.progress \in 0..100]_vars
    /\ (upload.pc \in {"queued", "tiles", "commit", "cleanup"}) ~> RunEnded

\* a run that reported progress ended in an error, and the entry says so
C30_Witness ==
    /\ upload.pc = "failed"
    /\ upload.status = "error"
    /\ upload.callbacks > 0
    /\ calc.op = "get_processing_status"
    /\ calc.result = <<"error", 0>>

====
